---- MODULE Spec2Model ----
(***************************************************************************)
(* Model of src/cpu/x64/jit_uni_group_normalization.cpp: the JIT group     *)
(* normalization forward primitive (pd_t::init, the statistics kernel, the *)
(* normalize kernel and the threaded scheduler execute_forward).           *)
(*                                                                         *)
(* Numbers.  A working-precision value is a pair <<num, k>> that stands    *)
(* for num / d^k, where d = C_PER_G * SP of the configuration.  The only   *)
(* division the statistics path performs is by d, so this is exact.  With  *)
(* cfg.fp = TRUE every arithmetic result is chopped to a few significant   *)
(* bits, which makes the addition non-associative like a float addition.   *)
(***************************************************************************)
EXTENDS Integers, Sequences, FiniteSets, TLC

VARIABLES
    cfg,        \* the configuration the primitive was created for
    phase,      \* position of execute_forward / pd_t::init
    algo,       \* the algorithm execute_forward chose: none, single or multi
    done,       \* threads of the current parallel region that have returned
    bufs,       \* stat_reduction, tmp_mean, tmp_var, arg_mean, arg_var
    dst,        \* thread -> the rows of vector stores it made to the destination
    oob,        \* statistics accesses that fell outside their buffer
    wlog,       \* thread -> stat locations written in this parallel region
    rlog,       \* thread -> stat locations read in this parallel region
    calls,      \* kernel invocations so far: [mean, var, norm, reduce]
    pd,         \* what pd_t::init recorded: [status, nthr_, booked]
    code,       \* instructions emitted so far by kernel_t::compute_dst_body
    kernels,    \* the kernels created: [isa, io_isa, stat_io_isa]
    trace,      \* thread -> the kernel calls it has made, in order
    vmms        \* vmm_stat and vmm_tmp of the statistics kernel's reduction

vars == <<cfg, phase, algo, done, bufs, dst, oob, wlog, rlog, calls, pd, code,
          kernels, trace, vmms>>

----------------------------------------------------------------------------
(* Bounds of the model *)

MaxN == 2
MaxG == 3
MaxSP == 3
\* largest source tensor, in elements
MaxElems == 130
MaxThr == 3
\* values below FpLimit are exact in the chopped arithmetic
FpLimit == 8
\* largest difference between padded_dims()[1] and dims()[1] of the source
MaxPad == 2

(* Program constants *)

\* SINGLE_KERNEL_HEURISTIC_ANCHOR threshold used by execute_forward
SchedThreshold == 32
\* the same threshold as the statistics kernel tests it
KernelThreshold == 32
\* static constexpr dim_t unroll_c_ = 4
unroll_c_ == 4

----------------------------------------------------------------------------
(* Small helpers *)

Min(a, b) == IF a < b THEN a ELSE b
Max(a, b) == IF a > b THEN a ELSE b

RECURSIVE Pow(_, _)
Pow(b, e) == IF e <= 0 THEN 1 ELSE b * Pow(b, e - 1)

RECURSIVE ChopN(_)
ChopN(x) == IF x < FpLimit THEN x ELSE 2 * ChopN(x \div 2)

Chop(x) == IF x < 0 THEN 0 - ChopN(0 - x) ELSE ChopN(x)

\* rounding of an arithmetic result: exact, or chopped like a short mantissa
Rnd(c, x) == IF c.fp THEN Chop(x) ELSE x

\* the divisor d = C_PER_G * SP of the configuration
Den(c) == c.CPG * c.SP

QZero == <<0, 0>>
QInt(x) == <<x, 0>>
QAlign(c, a, k) == IF a[2] = k THEN a[1] ELSE a[1] * Pow(Den(c), k - a[2])

\* uni_vaddps, uni_vsubps, uni_vmulps, uni_vfmadd231ps, uni_vdivps on one lane
FAdd(c, a, b) ==
    IF a[2] = b[2] THEN <<Rnd(c, a[1] + b[1]), a[2]>>
    ELSE LET k == Max(a[2], b[2])
         IN  <<Rnd(c, QAlign(c, a, k) + QAlign(c, b, k)), k>>
FSub(c, a, b) ==
    IF a[2] = b[2] THEN <<Rnd(c, a[1] - b[1]), a[2]>>
    ELSE LET k == Max(a[2], b[2])
         IN  <<Rnd(c, QAlign(c, a, k) - QAlign(c, b, k)), k>>
FMul(c, a, b) == <<Rnd(c, a[1] * b[1]), a[2] + b[2]>>
FFma(c, acc, a, b) ==
    LET k == Max(acc[2], a[2] + b[2])
    IN  <<Rnd(c, QAlign(c, acc, k) + QAlign(c, <<a[1] * b[1], a[2] + b[2]>>, k)),
          k>>
\* division by d = C_PER_G * SP
FDivD(c, a) == <<a[1], a[2] + 1>>

\* equality of the numbers two pairs stand for
QEq(c, a, b) ==
    LET k == Max(a[2], b[2]) IN QAlign(c, a, k) = QAlign(c, b, k)

----------------------------------------------------------------------------
(* Configuration and memory *)

\* vector width in f32 lanes: 8 for the avx2 kernels, 16 for avx512_core
SimdSet == {8, 16}
\* channels per group; 31, 32 and 33 surround the scheduling threshold
CPerGSet == {3, 31, 32, 33}

C_(c) == c.G * c.CPG
C_PER_G(c) == C_(c) \div c.G
SP_(c) == c.SP

\* number of elements of the source and of the destination tensor
TensorSize(c) == c.N * c.SP * c.C_padded

\* what lies in memory outside a tensor
Poison == 7

\* the source tensor, channel-last: offset = (n * SP + sp) * C_padded + ch
SrcAt(c, off) ==
    IF off >= 0 /\ off < TensorSize(c) /\ (off % c.C_padded) < C_(c)
    THEN (off * 7 + (off \div 5) * 3 + (off \div c.C_padded) + c.pat) % 4
    ELSE Poison

\* the caller's scale and shift tensors, one f32 per channel
ScaleAt(c, ch) == IF ch >= 0 /\ ch < C_(c) THEN 1 + (ch % 3) ELSE Poison
ShiftAt(c, ch) == IF ch >= 0 /\ ch < C_(c) THEN (ch * 2) % 5 ELSE Poison

Lanes(c) == 0 .. (c.W - 1)
ZeroVec(c) == [l \in Lanes(c) |-> QZero]
\* a register nobody has initialised
GarbageVec(c) == [l \in Lanes(c) |-> QInt(Poison)]

\* kernel_stat_t / kernel_t constructor: the channel-block decomposition
simd_w_(c) == c.W
axis_simd_full_(c) == C_PER_G(c) \div simd_w_(c)
axis_simd_tail_(c) == C_PER_G(c) % simd_w_(c)
c_block_(c) == unroll_c_ * simd_w_(c)
nc_blocks_(c) == C_PER_G(c) \div c_block_(c)
c_block_tail_(c) == (C_PER_G(c) % c_block_(c)) - axis_simd_tail_(c)
unroll_c_tail_(c) == c_block_tail_(c) \div simd_w_(c)

\* kernel_stat_t: axis_simd_tail_, the tail length handed to its io helper
stat_tail_(c) == (C_(c) \div c.G) % simd_w_(c)
\* kernel_t: axis_simd_tail_, the tail length handed to its io helper
norm_tail_(c) == (C_(c) \div c.G) % simd_w_(c)

\* src_ptr(offt): the vector of source elements at reg_src + offt
src_ptr(c, off) == [l \in Lanes(c) |-> QInt(SrcAt(c, off + l))]

\* io_[dt]->load(addr, vmm, tail): lanes at or beyond the tail length are zeroed
io_load(c, mem, tail, tl) ==
    [l \in Lanes(c) |-> IF tail /\ l >= tl THEN QZero ELSE mem[l]]

\* io_[f32]->broadcast(addr, vmm)
io_broadcast(c, v) == [l \in Lanes(c) |-> v]

\* the tail mask register / opmask prepared by io_.prepare_tail_mask()
tail_mask(c, tl) == [l \in Lanes(c) |-> l < tl]

VAdd(c, a, b) == [l \in Lanes(c) |-> FAdd(c, a[l], b[l])]
VSub(c, a, b) == [l \in Lanes(c) |-> FSub(c, a[l], b[l])]
VFma(c, acc, a, b) == [l \in Lanes(c) |-> FFma(c, acc[l], a[l], b[l])]

----------------------------------------------------------------------------
(* kernel_stat_t: the statistics kernel *)

URange == 0 .. (unroll_c_ - 1)

\* distance between two spatial positions as the kernels step it (c_src_size)
kernel_stride(c) == C_(c)

RECURSIVE mean_sp_loop(_, _, _, _, _, _)
mean_sp_loop(c, acc, reg_src, reg_sp_block_end, unroll, tail) ==
    IF reg_sp_block_end <= reg_src THEN acc
    ELSE mean_sp_loop(c,
            [ur \in URange |->
                IF ur < unroll
                THEN VAdd(c, acc[ur],
                          io_load(c, src_ptr(c, reg_src + ur * simd_w_(c)),
                                  tail, stat_tail_(c)))
                ELSE acc[ur]],
            reg_src + kernel_stride(c), reg_sp_block_end, unroll, tail)

\* accumulates Vmm_mean(0..unroll-1) over block_size spatial positions
compute_mean_block(c, acc, reg_src_start, unroll, tail, block_size) ==
    mean_sp_loop(c, acc, reg_src_start,
                 reg_src_start + block_size * kernel_stride(c), unroll, tail)

\* mutant of var_sub: the tail block subtracts the mean like a full block
var_sub_unmasked(c, vsrc, vmean, tail) ==
    [src |-> VSub(c, vsrc, vmean), vmean |-> vmean]

\* the subtraction of the broadcast mean of one register of a variance block;
\* returns [src, vmean]: the deviations and the (possibly blended) mean register
var_sub(c, vsrc, vmean, tail) ==
    IF ~tail THEN [src |-> VSub(c, vsrc, vmean), vmean |-> vmean]
    ELSE IF c.W = 16
         THEN \* uni_vsubps(Vmm_src | tail_opmask, ...): merge masking
              [src |-> [l \in Lanes(c) |->
                          IF tail_mask(c, stat_tail_(c))[l]
                          THEN FSub(c, vsrc[l], vmean[l]) ELSE vsrc[l]],
               vmean |-> vmean]
         ELSE \* uni_vblendvps(Vmm_mean, vmm_tmp = 0, Vmm_mean, vmm_tail_mask)
              LET blended == [l \in Lanes(c) |->
                                IF tail_mask(c, stat_tail_(c))[l]
                                THEN vmean[l] ELSE QZero]
              IN  [src |-> VSub(c, vsrc, blended), vmean |-> blended]

RECURSIVE var_sp_loop(_, _, _, _, _, _, _)
var_sp_loop(c, acc, vmean, reg_src, reg_sp_block_end, unroll, tail) ==
    IF reg_sp_block_end <= reg_src THEN acc
    ELSE LET sub == [ur \in 0 .. (unroll - 1) |->
                       var_sub(c,
                          io_load(c, src_ptr(c, reg_src + ur * simd_w_(c)),
                                  tail, stat_tail_(c)),
                          vmean[ur], tail)]
         IN  var_sp_loop(c,
                [ur \in URange |->
                    IF ur < unroll
                    THEN VFma(c, acc[ur], sub[ur].src, sub[ur].src)
                    ELSE acc[ur]],
                [ur \in URange |->
                    IF ur < unroll THEN sub[ur].vmean ELSE vmean[ur]],
                reg_src + kernel_stride(c), reg_sp_block_end, unroll, tail)

\* accumulates Vmm_var(0..unroll-1) with the squared deviations from *mean
compute_var_block(c, acc, mean, reg_src_start, unroll, tail, block_size) ==
    var_sp_loop(c, acc, [ur \in URange |-> io_broadcast(c, mean)], reg_src_start,
                reg_src_start + block_size * kernel_stride(c), unroll, tail)

compute_stat_block(c, compute_var, acc, mean, reg_src_start, unroll, tail, block_size) ==
    IF compute_var
    THEN compute_var_block(c, acc, mean, reg_src_start, unroll, tail, block_size)
    ELSE compute_mean_block(c, acc, reg_src_start, unroll, tail, block_size)

\* selector j of a shuffle immediate (two bits each)
Sel(imm, j) == (imm \div Pow(4, j)) % 4

\* vshuff32x4(dst, v, v, imm): 128-bit chunks of a zmm
vshuff32x4(c, v, imm) ==
    [l \in Lanes(c) |-> v[4 * Sel(imm, l \div 4) + (l % 4)]]
\* vperm2f128(dst, v, v, imm): the two 128-bit halves of a ymm
vperm2f128(c, v, imm) ==
    [l \in Lanes(c) |->
        v[4 * (Sel(imm, 2 * (l \div 4)) % 2) + (l % 4)]]
\* uni_vshufps(dst, v, v, imm): within every 128-bit chunk
vshufps(c, v, imm) ==
    [l \in Lanes(c) |-> v[4 * (l \div 4) + Sel(imm, l % 4)]]

reduce_horizontal(c, vstat) ==
    LET s1 == IF c.W = 16
              THEN LET a == VAdd(c, vstat, vshuff32x4(c, vstat, 78))
                   IN  VAdd(c, a, vshuff32x4(c, a, 177))
              ELSE VAdd(c, vstat, vperm2f128(c, vstat, 1))
        s2 == VAdd(c, s1, vshufps(c, s1, 78))
    IN  VAdd(c, s2, vshufps(c, s2, 177))

\* mutant of max_unroll: the remainder unroll is not taken into account
max_unroll_no_remainder(c) ==
    IF nc_blocks_(c) # 0 THEN unroll_c_ ELSE 1

\* number of accumulator registers zeroed before and reduced after the blocks
max_unroll(c) ==
    IF nc_blocks_(c) # 0 THEN unroll_c_
    ELSE IF unroll_c_tail_(c) # 0 THEN unroll_c_tail_(c) ELSE 1

\* the c_blk_loop of generate(): nc_blocks_ full blocks of unroll_c_ registers
RECURSIVE c_blk_loop(_, _, _, _, _, _, _)
c_blk_loop(c, compute_var, acc, mean, reg_src_start, reg_nc_block, block_size) ==
    IF reg_nc_block = nc_blocks_(c) THEN acc
    ELSE c_blk_loop(c, compute_var,
            compute_stat_block(c, compute_var, acc, mean, reg_src_start,
                               unroll_c_, FALSE, block_size),
            mean, reg_src_start + c_block_(c), reg_nc_block + 1, block_size)

\* the accumulators and reg_src_start after the full vector blocks of generate()
stat_main_blocks(c, compute_var, mean, src, block_size) ==
    LET acc0 == [ur \in URange |->
                    IF ur < max_unroll(c) THEN ZeroVec(c) ELSE GarbageVec(c)]
        acc1 == IF nc_blocks_(c) # 0
                THEN c_blk_loop(c, compute_var, acc0, mean, src, 0, block_size)
                ELSE acc0
        src1 == src + nc_blocks_(c) * c_block_(c)
    IN  IF unroll_c_tail_(c) # 0
        THEN [acc |-> compute_stat_block(c, compute_var, acc1, mean, src1,
                                         unroll_c_tail_(c), FALSE, block_size),
              src |-> src1 + c_block_tail_(c)]
        ELSE [acc |-> acc1, src |-> src1]

\* the accumulators after all channel blocks of generate()
stat_blocks(c, compute_var, mean, src, block_size) ==
    LET m == stat_main_blocks(c, compute_var, mean, src, block_size)
    IN  IF axis_simd_tail_(c) # 0
        THEN compute_stat_block(c, compute_var, m.acc, mean, m.src, 1, TRUE,
                                block_size)
        ELSE m.acc

\* Part 1 of the reduction: over the unrolled registers
reduce_unrolled(c, acc) ==
    CASE max_unroll(c) = 4 ->
            VAdd(c, VAdd(c, acc[0], acc[1]), VAdd(c, acc[2], acc[3]))
      [] max_unroll(c) = 3 -> VAdd(c, VAdd(c, acc[0], acc[1]), acc[2])
      [] max_unroll(c) = 2 -> VAdd(c, acc[0], acc[1])
      [] max_unroll(c) = 1 -> acc[0]
      [] OTHER -> GarbageVec(c)

\* mutant of kernel_divides: the threshold taken exclusively
kernel_divides_strict(c) == C_PER_G(c) > KernelThreshold

\* "Divide a stat by N": whether the statistics kernel divides its sum
kernel_divides(c) == C_PER_G(c) >= KernelThreshold

\* kernel_stat_t::generate: the value stored to *mean (or *var) by one call
kernel_stat(c, compute_var, src, mean, block_size) ==
    LET vstat == reduce_horizontal(c,
                    reduce_unrolled(c,
                        stat_blocks(c, compute_var, mean, src, block_size)))
    IN  IF kernel_divides(c) THEN FDivD(c, vstat[0]) ELSE vstat[0]

\* (*kernel_mean_)(src, mean, block_size)
kernel_mean_(c, src, block_size) == kernel_stat(c, FALSE, src, QZero, block_size)
\* (*kernel_var_)(src, mean, var, block_size)
kernel_var_(c, src, mean, block_size) == kernel_stat(c, TRUE, src, mean, block_size)

\* a loop that has not ended within the iterations it was given
Diverges == 0 - 1

\* iterations of a spatial loop (cmp(reg_sp_block_end, reg_src); jle(end); ...;
\* add(reg_src, c_src_size); jmp) from reg_src, Diverges beyond fuel iterations
RECURSIVE sp_loop_trips(_, _, _, _)
sp_loop_trips(reg_src, reg_sp_block_end, c_src_size, fuel) ==
    IF reg_sp_block_end <= reg_src THEN 0
    ELSE IF fuel = 0 THEN Diverges
    ELSE LET r == sp_loop_trips(reg_src + c_src_size, reg_sp_block_end,
                                c_src_size, fuel - 1)
         IN  IF r = Diverges THEN Diverges ELSE r + 1

\* iterations of the c_blk_loop (cmp(reg_nc_block, nc_blocks_); je(end); ...;
\* add(reg_nc_block, 1); jmp) from reg_nc_block
RECURSIVE c_blk_loop_trips(_, _, _)
c_blk_loop_trips(reg_nc_block, nc_blocks, fuel) ==
    IF reg_nc_block = nc_blocks THEN 0
    ELSE IF fuel = 0 THEN Diverges
    ELSE LET r == c_blk_loop_trips(reg_nc_block + 1, nc_blocks, fuel - 1)
         IN  IF r = Diverges THEN Diverges ELSE r + 1

----------------------------------------------------------------------------
(* kernel_t: the normalize kernel *)

\* the null pointer (no valid offset is negative)
Null == 0 - 1

\* mutant of compute_dst: the tail block is not emitted
compute_dst_no_tail(c) ==
    UNION {{i * simd_w_(c) + l : l \in Lanes(c)} :
                i \in 0 .. (axis_simd_full_(c) - 1)}

\* compute_dst(): the lane offsets, relative to reg_dst, stored for one spatial
\* position: every full block, then the lanes below the tail length
compute_dst(c) ==
    UNION {{i * simd_w_(c) + l : l \in Lanes(c)} :
                i \in 0 .. (axis_simd_full_(c) - 1)}
    \cup (IF axis_simd_tail_(c) # 0
          THEN {axis_simd_full_(c) * simd_w_(c) + l :
                    l \in {x \in Lanes(c) : tail_mask(c, norm_tail_(c))[x]}}
          ELSE {})

\* the unroll_loop of kernel_t::generate: one row per spatial position, each row
\* the pointers compute_dst() works with at that position
RECURSIVE norm_sp_loop(_, _, _, _, _)
norm_sp_loop(c, a, reg_src, reg_dst, reg_block_end) ==
    IF reg_block_end <= reg_src THEN << >>
    ELSE <<[a EXCEPT !.src = reg_src, !.dst = reg_dst]>>
         \o norm_sp_loop(c, a, reg_src + kernel_stride(c),
                         reg_dst + kernel_stride(c), reg_block_end)

\* (*kernel_)(src, dst, scale, shift, mean, var, ..., block_size)
kernel_(c, src, dst_ptr, scale, shift, mean, var, block_size) ==
    norm_sp_loop(c, [src |-> src, dst |-> dst_ptr, scale |-> scale,
                     shift |-> shift, mean |-> mean, var |-> var],
                 src, dst_ptr, src + block_size * kernel_stride(c))

\* the value compute_dst_body stores at lane offset j of a row: a function of
\* the source element, the group statistics and the affine parameters read
dst_value(c, row, j) ==
    <<SrcAt(c, row.src + j), row.mean, row.var,
      IF c.use_scale /\ row.scale # Null THEN row.scale + j ELSE Null,
      IF c.use_shift /\ row.shift # Null THEN row.shift + j ELSE Null>>

----------------------------------------------------------------------------
(* pd_t::init: scratchpad booking;  execute_forward: buffers *)

\* mutant of book_scratchpad: the reduction scratch booked as one float per
\* (sample, group)
book_scratchpad_per_entry(c) ==
    [nthr_ |-> c.nthr,
     booked |->
        IF ~c.stats_is_src
        THEN [key_gnorm_reduction |-> c.N * c.G]
             @@ (IF ~c.is_training
                 THEN [key_gnorm_tmp_mean |-> c.N * C_(c),
                       key_gnorm_tmp_var |-> c.N * C_(c)]
                 ELSE << >>)
        ELSE << >>]

\* lines 842-856: what init records and books for an accepted configuration
book_scratchpad(c) ==
    [nthr_ |-> c.nthr,
     booked |->
        IF ~c.stats_is_src
        THEN [key_gnorm_reduction |-> c.N * C_(c) * c.nthr]
             @@ (IF ~c.is_training
                 THEN [key_gnorm_tmp_mean |-> c.N * C_(c),
                       key_gnorm_tmp_var |-> c.N * C_(c)]
                 ELSE << >>)
        ELSE << >>]

\* mutant of mean_buf: the test of is_training inverted
mean_buf_inverted(c) ==
    IF c.stats_is_src THEN "CTX_IN_MEAN"
    ELSE IF ~c.is_training THEN "CTX_OUT_MEAN" ELSE "key_gnorm_tmp_mean"

\* the buffer execute_forward uses as mean / as variance
mean_buf(c) ==
    IF c.stats_is_src THEN "CTX_IN_MEAN"
    ELSE IF c.is_training THEN "CTX_OUT_MEAN" ELSE "key_gnorm_tmp_mean"
variance_buf(c) ==
    IF c.stats_is_src THEN "CTX_IN_VARIANCE"
    ELSE IF c.is_training THEN "CTX_OUT_VARIANCE" ELSE "key_gnorm_tmp_var"

BufNames == {"key_gnorm_reduction", "key_gnorm_tmp_mean", "key_gnorm_tmp_var",
             "CTX_IN_MEAN", "CTX_IN_VARIANCE", "CTX_OUT_MEAN", "CTX_OUT_VARIANCE"}

\* number of floats behind a buffer pointer; 0 for a null pointer
BufSize(c, p, b) ==
    IF b \in DOMAIN p.booked THEN p.booked[b]
    ELSE IF b \in {"CTX_IN_MEAN", "CTX_IN_VARIANCE"} /\ c.stats_is_src
         THEN c.N * c.G
    ELSE IF b \in {"CTX_OUT_MEAN", "CTX_OUT_VARIANCE"}
            /\ ~c.stats_is_src /\ c.is_training
         THEN c.N * c.G
    ELSE 0

\* a float nobody has written
GarbageQ == QInt(Poison)

\* statistics the caller supplies with stats_is_src
SuppliedMean(c, i) == QInt(1 + (i % 2))
SuppliedVar(c, i) == QInt(2 + ((i * 3) % 4))

\* buffers hold the floats written so far; the rest of a buffer is garbage
InitBufs(c) ==
    [b \in BufNames |->
        IF b = "CTX_IN_MEAN" /\ c.stats_is_src
        THEN [i \in 0 .. (c.N * c.G - 1) |-> SuppliedMean(c, i)]
        ELSE IF b = "CTX_IN_VARIANCE" /\ c.stats_is_src
        THEN [i \in 0 .. (c.N * c.G - 1) |-> SuppliedVar(c, i)]
        ELSE << >>]

----------------------------------------------------------------------------
(* execute_forward: what one thread does to memory *)

\* balance211(n, team, tid, start, end) of dnnl_thread.hpp
balance211(n, team, tid) ==
    IF team <= 1 \/ n = 0 THEN [start |-> 0, end |-> n]
    ELSE LET n1 == (n + team - 1) \div team
             n2 == n1 - 1
             T1 == n - n2 * team
             len == IF tid < T1 THEN n1 ELSE n2
             st == IF tid <= T1 THEN tid * n1 ELSE T1 * n1 + (tid - T1) * n2
         IN  [start |-> st, end |-> st + len]

\* the memory effects of the thread simulated so far
NewSt(b) == [bufs |-> b, wl |-> {}, rl |-> {}, rows |-> << >>, oob |-> {},
             calls |-> [mean |-> 0, var |-> 0, norm |-> 0], trace |-> << >>]

\* a statistics pointer a kernel call does not take
NoStat == <<"none", 0>>

\* the arguments of one kernel call; mean and var are <<buffer, index>>
KernelCall(kernel, src, dst_ptr, scale, shift, mean, var, block_size) ==
    [kernel |-> kernel, src |-> src, dst |-> dst_ptr, scale |-> scale,
     shift |-> shift, mean |-> mean, var |-> var, block_size |-> block_size]

st_read(st, b, i) ==
    IF i \in DOMAIN st.bufs[b] THEN st.bufs[b][i] ELSE GarbageQ

st_logr(c, p, st, b, i) ==
    [st EXCEPT !.rl = @ \cup {<<b, i>>},
               !.oob = IF i < 0 \/ i >= BufSize(c, p, b)
                       THEN @ \cup {<<b, i>>} ELSE @]

st_write(c, p, st, b, i, v) ==
    [st EXCEPT !.bufs[b] = [j \in (DOMAIN @) \cup {i} |->
                                IF j = i THEN v ELSE @[j]],
               !.wl = @ \cup {<<b, i>>},
               !.oob = IF i < 0 \/ i >= BufSize(c, p, b)
                       THEN @ \cup {<<b, i>>} ELSE @]

\* a call of the mean kernel: reads src, stores one float at b[i]
call_mean(c, p, st, src, b, i, block_size) ==
    [st_write(c, p, st, b, i, kernel_mean_(c, src, block_size))
        EXCEPT !.calls.mean = @ + 1,
               !.trace = Append(@, KernelCall("mean", src, Null, Null, Null,
                                              <<b, i>>, NoStat, block_size))]

\* a call of the variance kernel: reads src and mb[mi], stores at b[i]
call_var(c, p, st, src, mb, mi, b, i, block_size) ==
    [st_write(c, p, st_logr(c, p, st, mb, mi), b, i,
              kernel_var_(c, src, st_read(st, mb, mi), block_size))
        EXCEPT !.calls.var = @ + 1,
               !.trace = Append(@, KernelCall("var", src, Null, Null, Null,
                                              <<mb, mi>>, <<b, i>>, block_size))]

\* a call of the normalize kernel: reads src, mb[mi], vb[vi], scale and shift
call_norm(c, p, st, src, dst_ptr, scale, shift, mb, mi, vb, vi, block_size) ==
    [st_logr(c, p, st_logr(c, p, st, mb, mi), vb, vi)
        EXCEPT !.rows = @ \o kernel_(c, src, dst_ptr, scale, shift,
                                     st_read(st, mb, mi), st_read(st, vb, vi),
                                     block_size),
               !.calls.norm = @ + 1,
               !.trace = Append(@, KernelCall("norm", src, dst_ptr, scale, shift,
                                              <<mb, mi>>, <<vb, vi>>, block_size))]

\* CTX_IN_MEM(DNNL_ARG_SCALE / DNNL_ARG_SHIFT): null unless the tensor is given
scale_arg(c) == IF c.use_scale THEN 0 ELSE Null
shift_arg(c) == IF c.use_shift THEN 0 ELSE Null
calculate_stats(c) == ~c.stats_is_src

\* mutant of single_kernel: the threshold taken exclusively
single_kernel_strict(c) == C_PER_G(c) > SchedThreshold

\* the scheduler's choice: TRUE for the single-threaded-group algorithm
single_kernel(c) == C_PER_G(c) >= SchedThreshold

\* mutant of unit_loop: the variance kernel is called before the mean kernel
RECURSIVE unit_loop_var_first(_, _, _, _, _)
unit_loop_var_first(c, p, st, i, g_end) ==
    IF i >= g_end THEN st
    ELSE LET stride_n == c.SP * c.C_padded
             data_off == (i \div c.G) * stride_n + (i % c.G) * C_PER_G(c)
             scale_ptr == IF scale_arg(c) # Null
                          THEN scale_arg(c) + (i % c.G) * C_PER_G(c) ELSE Null
             shift_ptr == IF shift_arg(c) # Null
                          THEN shift_arg(c) + (i % c.G) * C_PER_G(c) ELSE Null
             s1 == IF calculate_stats(c)
                   THEN call_mean(c, p,
                            call_var(c, p, st, data_off, mean_buf(c), i,
                                     variance_buf(c), i, c.SP),
                            data_off, mean_buf(c), i, c.SP)
                   ELSE st
         IN  unit_loop_var_first(c, p,
                call_norm(c, p, s1, data_off, data_off, scale_ptr, shift_ptr,
                          mean_buf(c), i, variance_buf(c), i, c.SP),
                i + 1, g_end)

\* lines 930-951: the unit loop of one thread of the single-threaded-group
\* algorithm
RECURSIVE unit_loop(_, _, _, _, _)
unit_loop(c, p, st, i, g_end) ==
    IF i >= g_end THEN st
    ELSE LET stride_n == c.SP * c.C_padded
             data_off == (i \div c.G) * stride_n + (i % c.G) * C_PER_G(c)
             scale_ptr == IF scale_arg(c) # Null
                          THEN scale_arg(c) + (i % c.G) * C_PER_G(c) ELSE Null
             shift_ptr == IF shift_arg(c) # Null
                          THEN shift_arg(c) + (i % c.G) * C_PER_G(c) ELSE Null
             s1 == IF calculate_stats(c)
                   THEN call_var(c, p,
                            call_mean(c, p, st, data_off, mean_buf(c), i, c.SP),
                            data_off, mean_buf(c), i, variance_buf(c), i, c.SP)
                   ELSE st
         IN  unit_loop(c, p,
                call_norm(c, p, s1, data_off, data_off, scale_ptr, shift_ptr,
                          mean_buf(c), i, variance_buf(c), i, c.SP),
                i + 1, g_end)

\* mutant of thread_single: the unit loop runs up to and including g_end
thread_single_inclusive(c, p, b, ithr, nthr) ==
    LET r == balance211(c.G * c.N, nthr, ithr)
    IN  IF r.start = r.end THEN NewSt(b)
        ELSE unit_loop(c, p, NewSt(b), r.start, r.end + 1)

\* lines 925-952: the body one thread runs in the parallel region
thread_single(c, p, b, ithr, nthr) ==
    LET r == balance211(c.G * c.N, nthr, ithr)
    IN  IF r.start = r.end THEN NewSt(b)
        ELSE unit_loop(c, p, NewSt(b), r.start, r.end)

\* mutant of nthr_per_g: one chunk per thread, whatever the number of groups
nthr_per_g_all(c, p) == p.nthr_

\* line 954: threads that share one group in the multi-threaded-group algorithm
nthr_per_g(c, p) == Min(p.nthr_, c.G)

\* mutant of item: the last chunk does not absorb the remainder of SP
item_no_tail(c, p, i) ==
    LET g_per_n == c.G * nthr_per_g(c, p)
        SP_chunk == c.SP \div nthr_per_g(c, p)
        ithr_stride_n == (i \div g_per_n) * c.C_padded * c.SP
        ithr_stride_g == (i % c.G) * C_PER_G(c)
        ithr_stride_sp == ((i % g_per_n) \div c.G) * c.C_padded * SP_chunk
    IN  [data_off |-> ithr_stride_n + ithr_stride_g + ithr_stride_sp,
         stat_idx |-> (i % c.G) + (i \div g_per_n) * c.G,
         scale_ptr |-> IF scale_arg(c) # Null
                       THEN scale_arg(c) + (i % c.G) * C_PER_G(c) ELSE Null,
         shift_ptr |-> IF shift_arg(c) # Null
                       THEN shift_arg(c) + (i % c.G) * C_PER_G(c) ELSE Null,
         kernel_sp_block_size |-> SP_chunk]

\* mutant of item: a chunk that is not the last runs one position into the next
item_overlap(c, p, i) ==
    LET g_per_n == c.G * nthr_per_g(c, p)
        SP_chunk == c.SP \div nthr_per_g(c, p)
        ithr_stride_n == (i \div g_per_n) * c.C_padded * c.SP
        ithr_stride_g == (i % c.G) * C_PER_G(c)
        ithr_stride_sp == ((i % g_per_n) \div c.G) * c.C_padded * SP_chunk
        SP_tail_chunk == c.SP - ((i % g_per_n) \div c.G) * SP_chunk
    IN  [data_off |-> ithr_stride_n + ithr_stride_g + ithr_stride_sp,
         stat_idx |-> (i % c.G) + (i \div g_per_n) * c.G,
         scale_ptr |-> IF scale_arg(c) # Null
                       THEN scale_arg(c) + (i % c.G) * C_PER_G(c) ELSE Null,
         shift_ptr |-> IF shift_arg(c) # Null
                       THEN shift_arg(c) + (i % c.G) * C_PER_G(c) ELSE Null,
         kernel_sp_block_size |->
            IF ((i % g_per_n) \div c.G) = nthr_per_g(c, p) - 1
            THEN SP_tail_chunk ELSE SP_chunk + 1]

\* the work item i of the multi-threaded-group algorithm, as lines 978-998,
\* 1010-1031 and 1044-1070 compute it
item(c, p, i) ==
    LET g_per_n == c.G * nthr_per_g(c, p)
        SP_chunk == c.SP \div nthr_per_g(c, p)
        ithr_stride_n == (i \div g_per_n) * c.C_padded * c.SP
        ithr_stride_g == (i % c.G) * C_PER_G(c)
        ithr_stride_sp == ((i % g_per_n) \div c.G) * c.C_padded * SP_chunk
        SP_tail_chunk == c.SP - ((i % g_per_n) \div c.G) * SP_chunk
    IN  [data_off |-> ithr_stride_n + ithr_stride_g + ithr_stride_sp,
         stat_idx |-> (i % c.G) + (i \div g_per_n) * c.G,
         scale_ptr |-> IF scale_arg(c) # Null
                       THEN scale_arg(c) + (i % c.G) * C_PER_G(c) ELSE Null,
         shift_ptr |-> IF shift_arg(c) # Null
                       THEN shift_arg(c) + (i % c.G) * C_PER_G(c) ELSE Null,
         kernel_sp_block_size |->
            IF ((i % g_per_n) \div c.G) = nthr_per_g(c, p) - 1
            THEN SP_tail_chunk ELSE SP_chunk]

\* mutant of mean_loop: the partial sum is stored at the entry's index in the
\* statistics buffer instead of the work item's own slot
RECURSIVE mean_loop_shared_slot(_, _, _, _, _)
mean_loop_shared_slot(c, p, st, i, chunk_end) ==
    IF i >= chunk_end THEN st
    ELSE LET it == item(c, p, i)
         IN  mean_loop_shared_slot(c, p,
                call_mean(c, p, st, it.data_off, "key_gnorm_reduction",
                          it.stat_idx, it.kernel_sp_block_size),
                i + 1, chunk_end)

\* lines 981-1000: partial sums of the mean into stat_reduction
RECURSIVE mean_loop(_, _, _, _, _)
mean_loop(c, p, st, i, chunk_end) ==
    IF i >= chunk_end THEN st
    ELSE LET it == item(c, p, i)
         IN  mean_loop(c, p,
                call_mean(c, p, st, it.data_off, "key_gnorm_reduction", i,
                          it.kernel_sp_block_size),
                i + 1, chunk_end)

\* lines 1013-1034: partial sums of the variance into stat_reduction
RECURSIVE var_loop(_, _, _, _, _)
var_loop(c, p, st, i, chunk_end) ==
    IF i >= chunk_end THEN st
    ELSE LET it == item(c, p, i)
         IN  var_loop(c, p,
                call_var(c, p, st, it.data_off, mean_buf(c), it.stat_idx,
                         "key_gnorm_reduction", i, it.kernel_sp_block_size),
                i + 1, chunk_end)

\* mutant of norm_loop: mean and variance are taken at the work item's index
RECURSIVE norm_loop_item_stat(_, _, _, _, _)
norm_loop_item_stat(c, p, st, i, chunk_end) ==
    IF i >= chunk_end THEN st
    ELSE LET it == item(c, p, i)
         IN  norm_loop_item_stat(c, p,
                call_norm(c, p, st, it.data_off, it.data_off,
                          it.scale_ptr, it.shift_ptr,
                          mean_buf(c), i, variance_buf(c), i,
                          it.kernel_sp_block_size),
                i + 1, chunk_end)

\* lines 1047-1075: the normalize pass
RECURSIVE norm_loop(_, _, _, _, _)
norm_loop(c, p, st, i, chunk_end) ==
    IF i >= chunk_end THEN st
    ELSE LET it == item(c, p, i)
         IN  norm_loop(c, p,
                call_norm(c, p, st, it.data_off, it.data_off,
                          it.scale_ptr, it.shift_ptr,
                          mean_buf(c), it.stat_idx, variance_buf(c), it.stat_idx,
                          it.kernel_sp_block_size),
                i + 1, chunk_end)

\* mutant of thread_multi: the item loop runs up to and including chunk_end
thread_multi_inclusive(c, p, b, which, ithr, nthr) ==
    LET r == balance211(c.G * c.N * nthr_per_g(c, p), nthr, ithr)
    IN  IF r.start = r.end THEN NewSt(b)
        ELSE CASE which = "mean" -> mean_loop(c, p, NewSt(b), r.start, r.end + 1)
               [] which = "var" -> var_loop(c, p, NewSt(b), r.start, r.end + 1)
               [] OTHER -> norm_loop(c, p, NewSt(b), r.start, r.end + 1)

\* the body one thread runs in a parallel region of the multi-threaded-group
\* algorithm; which is "mean", "var" or "norm"
thread_multi(c, p, b, which, ithr, nthr) ==
    LET r == balance211(c.G * c.N * nthr_per_g(c, p), nthr, ithr)
    IN  IF r.start = r.end THEN NewSt(b)
        ELSE CASE which = "mean" -> mean_loop(c, p, NewSt(b), r.start, r.end)
               [] which = "var" -> var_loop(c, p, NewSt(b), r.start, r.end)
               [] OTHER -> norm_loop(c, p, NewSt(b), r.start, r.end)

\* mutant of reduce_add: the slots of an entry taken as adjacent
RECURSIVE reduce_add_adjacent(_, _, _, _, _, _)
reduce_add_adjacent(c, p, st, stat, tmp_stat, k) ==
    IF k >= c.N * nthr_per_g(c, p) * c.G THEN st
    ELSE LET n == k \div (nthr_per_g(c, p) * c.G)
             ithr == (k \div c.G) % nthr_per_g(c, p)
             g == k % c.G
             src == n * nthr_per_g(c, p) * c.G + g * nthr_per_g(c, p) + ithr
             s1 == st_logr(c, p, st, tmp_stat, src)
         IN  reduce_add_adjacent(c, p,
                st_write(c, p, s1, stat, n * c.G + g,
                         FAdd(c, st_read(s1, stat, n * c.G + g),
                              st_read(s1, tmp_stat, src))),
                stat, tmp_stat, k + 1)

\* lines 961-965 of reduce: stat[n * G + g] += tmp_stat[...], in loop order
RECURSIVE reduce_add(_, _, _, _, _, _)
reduce_add(c, p, st, stat, tmp_stat, k) ==
    IF k >= c.N * nthr_per_g(c, p) * c.G THEN st
    ELSE LET n == k \div (nthr_per_g(c, p) * c.G)
             ithr == (k \div c.G) % nthr_per_g(c, p)
             g == k % c.G
             src == n * nthr_per_g(c, p) * c.G + ithr * c.G + g
             s1 == st_logr(c, p, st, tmp_stat, src)
         IN  reduce_add(c, p,
                st_write(c, p, s1, stat, n * c.G + g,
                         FAdd(c, st_read(s1, stat, n * c.G + g),
                              st_read(s1, tmp_stat, src))),
                stat, tmp_stat, k + 1)

\* lines 958-959 of reduce: stat[g] = 0.f
RECURSIVE reduce_zero(_, _, _, _, _)
reduce_zero(c, p, st, stat, g) ==
    IF g >= c.G * c.N THEN st
    ELSE reduce_zero(c, p, st_write(c, p, st, stat, g, QZero), stat, g + 1)

\* lines 967-968 of reduce: stat[g] /= C_PER_G * SP
RECURSIVE reduce_div(_, _, _, _, _)
reduce_div(c, p, st, stat, g) ==
    IF g >= c.G * c.N THEN st
    ELSE reduce_div(c, p,
            st_write(c, p, st, stat, g, FDivD(c, st_read(st, stat, g))),
            stat, g + 1)

\* lines 957-969: reduce(stat, tmp_stat)
reduce(c, p, b, stat, tmp_stat) ==
    reduce_div(c, p,
        reduce_add(c, p, reduce_zero(c, p, NewSt(b), stat, 0), stat, tmp_stat, 0),
        stat, 0)

----------------------------------------------------------------------------
(* execute_forward as a state machine: one action per thread of a parallel  *)
(* region (the whole lambda the thread runs), one per sequential step       *)

Threads == 0 .. (pd.nthr_ - 1)

\* the stores to dst so far: <<thread, row number, offset>> for every lane a
\* stored row writes
Stores ==
    LET lanes == compute_dst(cfg)
    IN  UNION {UNION {{<<t, k, dst[t][k].dst + j>> : j \in lanes} :
                            k \in DOMAIN dst[t]} : t \in DOMAIN dst}

\* every destination offset stored to so far
StoredOffsets == {s[3] : s \in Stores}

\* the value at destination offset o after its store by row k of thread t
DstValue(o, t, k) == dst_value(cfg, dst[t][k], o - dst[t][k].dst)

\* thread t of the current parallel region has run its lambda with effects st
Join(t, st) ==
    /\ bufs' = st.bufs
    /\ dst' = [dst EXCEPT ![t] = @ \o st.rows]
    /\ oob' = oob \cup st.oob
    /\ wlog' = [wlog EXCEPT ![t] = st.wl]
    /\ rlog' = [rlog EXCEPT ![t] = st.rl]
    /\ calls' = [calls EXCEPT !.mean = @ + st.calls.mean,
                              !.var = @ + st.calls.var,
                              !.norm = @ + st.calls.norm]
    /\ done' = done \cup {t}
    /\ trace' = [trace EXCEPT ![t] = @ \o st.trace]
    /\ UNCHANGED <<cfg, phase, algo, pd, code, kernels, vmms>>

\* entering a parallel(nthr, ...) region or a sequential step
Enter(ph) ==
    /\ phase' = ph
    /\ done' = {}
    /\ wlog' = [t \in DOMAIN wlog |-> {}]
    /\ rlog' = [t \in DOMAIN rlog |-> {}]

\* line 924: the choice of the algorithm
Dispatch ==
    /\ phase = "execute"
    /\ Enter(IF single_kernel(cfg) THEN "single"
             ELSE IF calculate_stats(cfg) THEN "multi_mean" ELSE "multi_norm")
    /\ algo' = IF single_kernel(cfg) THEN "single" ELSE "multi"
    /\ UNCHANGED <<cfg, bufs, dst, oob, calls, pd, code, kernels, trace, vmms>>

ThreadSingle(t) ==
    /\ phase = "single" /\ t \in Threads \ done
    /\ Join(t, thread_single(cfg, pd, bufs, t, pd.nthr_))

ThreadMean(t) ==
    /\ phase = "multi_mean" /\ t \in Threads \ done
    /\ Join(t, thread_multi(cfg, pd, bufs, "mean", t, pd.nthr_))

\* line 1002: reduce(mean, stat_reduction), after the region has joined
ReduceMean ==
    /\ phase = "multi_mean" /\ done = Threads
    /\ LET st == reduce(cfg, pd, bufs, mean_buf(cfg), "key_gnorm_reduction")
       IN  /\ bufs' = st.bufs
           /\ oob' = oob \cup st.oob
    /\ Enter("multi_var")
    /\ calls' = [calls EXCEPT !.reduce = @ + 1]
    /\ UNCHANGED <<cfg, algo, dst, pd, code, kernels, trace, vmms>>

\* mutant of ThreadVar: the variance region does not wait for the mean region
\* and its reduce
ThreadVar_no_barrier(t) ==
    /\ phase \in {"multi_mean", "multi_var"} /\ t \in Threads \ done
    /\ Join(t, thread_multi(cfg, pd, bufs, "var", t, pd.nthr_))

ThreadVar(t) ==
    /\ phase = "multi_var" /\ t \in Threads \ done
    /\ Join(t, thread_multi(cfg, pd, bufs, "var", t, pd.nthr_))

\* line 1036: reduce(variance, stat_reduction)
ReduceVar ==
    /\ phase = "multi_var" /\ done = Threads
    /\ LET st == reduce(cfg, pd, bufs, variance_buf(cfg), "key_gnorm_reduction")
       IN  /\ bufs' = st.bufs
           /\ oob' = oob \cup st.oob
    /\ Enter("multi_norm")
    /\ calls' = [calls EXCEPT !.reduce = @ + 1]
    /\ UNCHANGED <<cfg, algo, dst, pd, code, kernels, trace, vmms>>

ThreadNorm(t) ==
    /\ phase = "multi_norm" /\ t \in Threads \ done
    /\ Join(t, thread_multi(cfg, pd, bufs, "norm", t, pd.nthr_))

\* line 1079: return status::success, once the last region has joined
Return ==
    /\ phase \in {"single", "multi_norm"} /\ done = Threads
    /\ phase' = "done"
    /\ UNCHANGED <<cfg, algo, done, bufs, dst, oob, wlog, rlog, calls, pd, code,
                   kernels, trace, vmms>>

\* configurations execute_forward runs with: accepted by pd_t::init, plain
\* channel-last layout (padded_dims = dims).  Every combination of scale and
\* shift is run with supplied statistics in inference; otherwise both are given.
ExecConfigs(fp) ==
    {c \in {[N |-> n, G |-> g, CPG |-> cpg, SP |-> sp, C_padded |-> g * cpg,
             nthr |-> t, W |-> w, stats_is_src |-> ss, is_training |-> tr,
             use_scale |-> af[1], use_shift |-> af[2], pat |-> 0, fp |-> fp] :
               n \in 1 .. MaxN, g \in 1 .. MaxG, cpg \in CPerGSet,
               sp \in 1 .. MaxSP, t \in 1 .. MaxThr, w \in SimdSet,
               ss \in BOOLEAN, tr \in BOOLEAN, af \in BOOLEAN \X BOOLEAN} :
        /\ (c.stats_is_src /\ ~c.is_training) \/ (c.use_scale /\ c.use_shift)
        /\ TensorSize(c) <= MaxElems}

\* no kernel has been created yet
no_kernels == [isa |-> "none", io_isa |-> "none", stat_io_isa |-> "none"]

\* the kernels of a primitive on f32 data: avx512_core for 16 lanes, else avx2
f32_kernels(c) ==
    LET isa == IF c.W = 16 THEN "avx512_core" ELSE "avx2"
    IN  [isa |-> isa, io_isa |-> isa, stat_io_isa |-> isa]

\* the primitive has been created for cfg and execute_forward is entered
InitExec(fp) ==
    /\ cfg \in ExecConfigs(fp)
    /\ pd = [status |-> "success"] @@ book_scratchpad(cfg)
    /\ phase = "execute"
    /\ algo = "none"
    /\ done = {}
    /\ bufs = InitBufs(cfg)
    /\ dst = [t \in 0 .. (cfg.nthr - 1) |-> << >>]
    /\ oob = {}
    /\ wlog = [t \in 0 .. (cfg.nthr - 1) |-> {}]
    /\ rlog = [t \in 0 .. (cfg.nthr - 1) |-> {}]
    /\ calls = [mean |-> 0, var |-> 0, norm |-> 0, reduce |-> 0]
    /\ code = << >>
    /\ kernels = f32_kernels(cfg)
    /\ trace = [t \in 0 .. (cfg.nthr - 1) |-> << >>]
    /\ vmms = << >>

Init == InitExec(FALSE)

Next ==
    \/ Dispatch
    \/ \E t \in Threads : ThreadSingle(t)
    \/ \E t \in Threads : ThreadMean(t)
    \/ ReduceMean
    \/ \E t \in Threads : ThreadVar(t)
    \/ ReduceVar
    \/ \E t \in Threads : ThreadNorm(t)
    \/ Return

Spec == Init /\ [][Next]_vars

\* line 897: C_padded = src_d.padded_dims()[1], which the descriptor may hold
\* larger than C = src_d.dims()[1]
PaddedConfigs ==
    {c \in {[b EXCEPT !.C_padded = C_(b) + pad] :
                b \in {x \in ExecConfigs(FALSE) :
                            x.is_training /\ x.use_scale /\ x.use_shift},
                pad \in 0 .. MaxPad} :
        TensorSize(c) <= MaxElems}

\* execute_forward is entered with a source and destination of padded_dims
InitPadded ==
    /\ cfg \in PaddedConfigs
    /\ pd = [status |-> "success"] @@ book_scratchpad(cfg)
    /\ phase = "execute"
    /\ algo = "none"
    /\ done = {}
    /\ bufs = InitBufs(cfg)
    /\ dst = [t \in 0 .. (cfg.nthr - 1) |-> << >>]
    /\ oob = {}
    /\ wlog = [t \in 0 .. (cfg.nthr - 1) |-> {}]
    /\ rlog = [t \in 0 .. (cfg.nthr - 1) |-> {}]
    /\ calls = [mean |-> 0, var |-> 0, norm |-> 0, reduce |-> 0]
    /\ code = << >>
    /\ kernels = f32_kernels(cfg)
    /\ trace = [t \in 0 .. (cfg.nthr - 1) |-> << >>]
    /\ vmms = << >>

SpecPadded == InitPadded /\ [][Next]_vars

----------------------------------------------------------------------------
(* The control flow of execute_forward alone: which loops run and whether    *)
(* they end, without the values the kernels compute                           *)

\* more iterations than any loop of a kernel call of the model needs
LoopFuel == MaxSP + unroll_c_

\* whether a kernel call on block_size spatial positions from src returns: the
\* spatial loop ends, and so does the channel-block loop of a statistics kernel
kernel_ends(c, src, block_size) ==
    /\ sp_loop_trips(src, src + block_size * kernel_stride(c), kernel_stride(c),
                     LoopFuel) # Diverges
    /\ c_blk_loop_trips(0, nc_blocks_(c), LoopFuel) # Diverges

\* the range of work items balance211 gives thread ithr in region which
thread_range(c, p, which, ithr) ==
    balance211(IF which = "single" THEN c.G * c.N
               ELSE c.G * c.N * nthr_per_g(c, p), p.nthr_, ithr)

\* mutant of thread_ends: a thread that is given no work item does not return
thread_ends_with_work(c, p, which, ithr) ==
    LET r == thread_range(c, p, which, ithr)
    IN  /\ r.start # r.end
        /\ \A i \in r.start .. (r.end - 1) :
                IF which = "single"
                THEN kernel_ends(c, (i \div c.G) * c.SP * c.C_padded
                                       + (i % c.G) * C_PER_G(c), c.SP)
                ELSE kernel_ends(c, item(c, p, i).data_off,
                                 item(c, p, i).kernel_sp_block_size)

\* whether the lambda of thread ithr in region which returns: at once when its
\* range is empty, otherwise when the kernel calls of every work item return
thread_ends(c, p, which, ithr) ==
    LET r == thread_range(c, p, which, ithr)
    IN  \/ r.start = r.end
        \/ \A i \in r.start .. (r.end - 1) :
                IF which = "single"
                THEN kernel_ends(c, (i \div c.G) * c.SP * c.C_padded
                                       + (i % c.G) * C_PER_G(c), c.SP)
                ELSE kernel_ends(c, item(c, p, i).data_off,
                                 item(c, p, i).kernel_sp_block_size)

\* thread t runs its lambda of the current region to its end
ThreadRuns(t) ==
    /\ phase \in {"single", "multi_mean", "multi_var", "multi_norm"}
    /\ t \in Threads \ done
    /\ thread_ends(cfg, pd, phase, t)
    /\ done' = done \cup {t}
    /\ LET r == thread_range(cfg, pd, phase, t)
           n == r.end - r.start
       IN  calls' = [calls EXCEPT
                !.mean = IF phase = "multi_mean"
                            \/ (phase = "single" /\ calculate_stats(cfg))
                         THEN @ + n ELSE @,
                !.var = IF phase = "multi_var"
                           \/ (phase = "single" /\ calculate_stats(cfg))
                        THEN @ + n ELSE @,
                !.norm = IF phase \in {"single", "multi_norm"} THEN @ + n ELSE @]
    /\ UNCHANGED <<cfg, phase, algo, bufs, dst, oob, wlog, rlog, pd, code, kernels, trace, vmms>>

\* lines 1002 and 1036: the three counted loops of reduce, after the region
\* has joined
ReduceRuns ==
    /\ phase \in {"multi_mean", "multi_var"} /\ done = Threads
    /\ Enter(IF phase = "multi_mean" THEN "multi_var" ELSE "multi_norm")
    /\ calls' = [calls EXCEPT !.reduce = @ + 1]
    /\ UNCHANGED <<cfg, algo, bufs, dst, oob, pd, code, kernels, trace, vmms>>

NextLive ==
    \/ Dispatch
    \/ \E t \in Threads : ThreadRuns(t)
    \/ ReduceRuns
    \/ Return

\* parallel() runs the lambda of every thread of a region and the caller goes
\* on once all have returned: no enabled step is postponed for ever
SpecLive == Init /\ [][NextLive]_vars /\ WF_vars(NextLive)

\* the same program with every arithmetic result chopped to a short mantissa,
\* which makes addition non-associative as float addition is
InitFP == InitExec(TRUE)

SpecFP == InitFP /\ [][Next]_vars

----------------------------------------------------------------------------
(* kernel_t::compute_dst: the instructions generated for one spatial position *)

Ins(op, d, a, b) == [op |-> op, d |-> d, a |-> a, b |-> b]

\* the body shared by compute_dst_body and its mutant: everything up to the
\* source scale
compute_dst_head(c, offt_elems, tail) ==
    (IF c.use_scale
     THEN <<Ins("load", "vmm_scale", <<"scale_ptr", offt_elems>>, tail)>> ELSE << >>)
    \o (IF c.use_shift
        THEN <<Ins("load", "vmm_shift", <<"shift_ptr", offt_elems>>, tail)>>
        ELSE << >>)
    \o <<Ins("load", "vmm_dst", <<"src_ptr", offt_elems>>, tail),
         Ins("broadcast", "vmm_mean", <<"mean_ptr", 0>>, FALSE),
         Ins("broadcast", "vmm_inv_sqrtvar", <<"var_ptr", 0>>, FALSE),
         Ins("uni_vaddps", "vmm_inv_sqrtvar", "vmm_inv_sqrtvar", "vmm_eps"),
         Ins("uni_vsqrtps", "vmm_inv_sqrtvar", "vmm_inv_sqrtvar", "vmm_inv_sqrtvar"),
         Ins("uni_vdivps", "vmm_inv_sqrtvar", "vmm_ones", "vmm_inv_sqrtvar"),
         Ins("uni_vsubps", "vmm_dst", "vmm_dst", "vmm_mean"),
         Ins("uni_vmulps", "vmm_dst", "vmm_dst", "vmm_inv_sqrtvar")>>
    \o (IF c.use_scale /\ c.use_shift
        THEN <<Ins("uni_vfmadd213ps", "vmm_dst", "vmm_scale", "vmm_shift")>>
        ELSE (IF c.use_scale
              THEN <<Ins("uni_vmulps", "vmm_dst", "vmm_dst", "vmm_scale")>>
              ELSE << >>)
             \o (IF c.use_shift
                 THEN <<Ins("uni_vaddps", "vmm_dst", "vmm_dst", "vmm_shift")>>
                 ELSE << >>))
    \o (IF c.with_src_scales
        THEN <<Ins("uni_vmovups", "vmm_qscale", <<"reg_src_scales", 0>>, FALSE),
               Ins("uni_vmulps", "vmm_dst", "vmm_dst", "vmm_qscale")>>
        ELSE << >>)

\* postops_injector_->compute_vector(vmm_dst.getIdx(), rhs_arg_params)
compute_dst_postops(c, offt_elems, tail) ==
    IF c.with_postops
    THEN <<Ins("compute_vector", "vmm_dst",
               IF c.with_binary THEN <<"dst_ptr", offt_elems>> ELSE <<"none", 0>>,
               c.with_binary /\ tail)>>
    ELSE << >>

compute_dst_dst_scales(c) ==
    IF c.with_dst_scales
    THEN <<Ins("uni_vmovups", "vmm_qscale", <<"reg_dst_scales", 0>>, FALSE),
           Ins("uni_vmulps", "vmm_dst", "vmm_dst", "vmm_qscale")>>
    ELSE << >>

\* mutant of compute_dst_body: the destination scale applied before the post-ops
compute_dst_body_scale_first(c, offt_elems, tail) ==
    compute_dst_head(c, offt_elems, tail)
    \o compute_dst_dst_scales(c)
    \o compute_dst_postops(c, offt_elems, tail)
    \o <<Ins("store", "vmm_dst", <<"dst_ptr", offt_elems>>, tail)>>

\* compute_dst_body(offt_elems, tail)
compute_dst_body(c, offt_elems, tail) ==
    compute_dst_head(c, offt_elems, tail)
    \o compute_dst_postops(c, offt_elems, tail)
    \o compute_dst_dst_scales(c)
    \o <<Ins("store", "vmm_dst", <<"dst_ptr", offt_elems>>, tail)>>

\* compute_dst(): the full blocks, then the tail block
RECURSIVE compute_dst_full(_, _)
compute_dst_full(c, i) ==
    IF i >= axis_simd_full_(c) THEN << >>
    ELSE compute_dst_body(c, i * simd_w_(c), FALSE) \o compute_dst_full(c, i + 1)

compute_dst_emit(c) ==
    compute_dst_full(c, 0)
    \o (IF axis_simd_tail_(c) # 0
        THEN compute_dst_body(c, axis_simd_full_(c) * simd_w_(c), TRUE)
        ELSE << >>)

\* kernel_t::generate has emitted compute_dst() into the unroll_loop
Generate ==
    /\ phase = "generate"
    /\ code' = compute_dst_emit(cfg)
    /\ phase' = "generated"
    /\ UNCHANGED <<cfg, algo, done, bufs, dst, oob, wlog, rlog, calls, pd, kernels, trace, vmms>>

\* the configurations a normalize kernel is built for: the affine flags, the
\* attribute flags read by the constructor, and the block decomposition
EmitConfigs ==
    {c \in {[G |-> 1, CPG |-> cpg, W |-> w, use_scale |-> f[1], use_shift |-> f[2],
             with_src_scales |-> f[3], with_postops |-> f[4],
             with_binary |-> f[5], with_dst_scales |-> f[6]] :
               cpg \in CPerGSet, w \in SimdSet,
               f \in BOOLEAN \X BOOLEAN \X BOOLEAN \X BOOLEAN \X BOOLEAN \X BOOLEAN} :
        c.with_binary => c.with_postops}

InitEmit ==
    /\ cfg \in EmitConfigs
    /\ pd = [status |-> "success", nthr_ |-> 0, booked |-> << >>]
    /\ phase = "generate"
    /\ algo = "none"
    /\ done = {}
    /\ bufs = << >>
    /\ dst = << >>
    /\ oob = {}
    /\ wlog = << >>
    /\ rlog = << >>
    /\ calls = [mean |-> 0, var |-> 0, norm |-> 0, reduce |-> 0]
    /\ code = << >>
    /\ kernels = f32_kernels(cfg)
    /\ trace = << >>
    /\ vmms = << >>

NextEmit == Generate

SpecEmit == InitEmit /\ [][NextEmit]_vars

----------------------------------------------------------------------------
(* kernel_stat_t::generate, Part 2: the reduction within vmm_stat, one      *)
(* instruction at a time, and the store of the statistic                    *)

\* mutant of reduce_horizontal_code: the last shuffle repeats the immediate of
\* the one before it
reduce_horizontal_code_same_imm(c) ==
    (IF c.W = 16
     THEN <<[op |-> "vshuff32x4", imm |-> 78], [op |-> "uni_vaddps", imm |-> 0],
            [op |-> "vshuff32x4", imm |-> 177], [op |-> "uni_vaddps", imm |-> 0]>>
     ELSE <<[op |-> "vperm2f128", imm |-> 1], [op |-> "uni_vaddps", imm |-> 0]>>)
    \o <<[op |-> "uni_vshufps", imm |-> 78], [op |-> "uni_vaddps", imm |-> 0],
          [op |-> "uni_vshufps", imm |-> 78], [op |-> "uni_vaddps", imm |-> 0]>>

\* lines 601-621: the instructions reduce_horizontal(vstat, vtmp) emits; a
\* shuffle writes vtmp from vstat, uni_vaddps adds vtmp to vstat
reduce_horizontal_code(c) ==
    (IF c.W = 16
     THEN <<[op |-> "vshuff32x4", imm |-> 78], [op |-> "uni_vaddps", imm |-> 0],
            [op |-> "vshuff32x4", imm |-> 177], [op |-> "uni_vaddps", imm |-> 0]>>
     ELSE <<[op |-> "vperm2f128", imm |-> 1], [op |-> "uni_vaddps", imm |-> 0]>>)
    \o <<[op |-> "uni_vshufps", imm |-> 78], [op |-> "uni_vaddps", imm |-> 0],
          [op |-> "uni_vshufps", imm |-> 177], [op |-> "uni_vaddps", imm |-> 0]>>

\* the registers after one instruction of reduce_horizontal
reduce_horizontal_exec(c, r, ins) ==
    CASE ins.op = "uni_vaddps" -> [r EXCEPT !.vstat = VAdd(c, r.vstat, r.vtmp)]
      [] ins.op = "vshuff32x4" -> [r EXCEPT !.vtmp = vshuff32x4(c, r.vstat, ins.imm)]
      [] ins.op = "vperm2f128" -> [r EXCEPT !.vtmp = vperm2f128(c, r.vstat, ins.imm)]
      [] ins.op = "uni_vshufps" -> [r EXCEPT !.vtmp = vshufps(c, r.vstat, ins.imm)]

\* the kernels the reduction is followed in: 8 and 16 lanes, with and without
\* the division by C_PER_G * SP
ReduceConfigs ==
    {c \in ExecConfigs(FALSE) :
        /\ c.N = 1 /\ c.G = 1 /\ c.SP = 1 /\ c.nthr = 1 /\ c.CPG \in {3, 32}
        /\ ~c.stats_is_src /\ c.is_training /\ c.use_scale /\ c.use_shift}

\* contents of vmm_stat after Part 1: one or two non-zero lanes in every
\* position, a register of distinct powers of two, a register of small values
ReduceInputs(c) ==
    {[l \in Lanes(c) |-> QInt(IF l = a THEN 1 ELSE IF l = b THEN 2 ELSE 0)] :
        a \in Lanes(c), b \in Lanes(c)}
    \cup {[l \in Lanes(c) |-> QInt(Pow(2, l))],
          [l \in Lanes(c) |-> QInt((l * 7 + 3) % 5)]}

InitReduce ==
    /\ cfg \in ReduceConfigs
    /\ pd = [status |-> "success"] @@ book_scratchpad(cfg)
    /\ phase = "reduce_horizontal"
    /\ algo = "none"
    /\ done = {}
    /\ bufs = InitBufs(cfg)
    /\ dst = << >>
    /\ oob = {}
    /\ wlog = << >>
    /\ rlog = << >>
    /\ calls = [mean |-> 0, var |-> 0, norm |-> 0, reduce |-> 0]
    /\ code = << >>
    /\ kernels = f32_kernels(cfg)
    /\ trace = << >>
    /\ \E v \in ReduceInputs(cfg) :
        vmms = [vstat |-> v, vtmp |-> GarbageVec(cfg), vstat_in |-> v]

\* one instruction of reduce_horizontal(vmm_stat, vmm_tmp)
ReduceHorizontalStep ==
    /\ phase = "reduce_horizontal"
    /\ Len(code) < Len(reduce_horizontal_code(cfg))
    /\ vmms' = reduce_horizontal_exec(cfg, vmms,
                    reduce_horizontal_code(cfg)[Len(code) + 1])
    /\ code' = Append(code, reduce_horizontal_code(cfg)[Len(code) + 1])
    /\ UNCHANGED <<cfg, phase, algo, done, bufs, dst, oob, wlog, rlog, calls, pd,
                   kernels, trace>>

\* lines 529-542: the division when C_PER_G >= 32, then the store of lane 0
StoreStat ==
    /\ phase = "reduce_horizontal"
    /\ Len(code) = Len(reduce_horizontal_code(cfg))
    /\ bufs' = [bufs EXCEPT ![mean_buf(cfg)] =
                    [i \in {0} |-> IF kernel_divides(cfg)
                                   THEN FDivD(cfg, vmms.vstat[0])
                                   ELSE vmms.vstat[0]]]
    /\ phase' = "stored"
    /\ UNCHANGED <<cfg, algo, done, dst, oob, wlog, rlog, calls, pd, code,
                   kernels, trace, vmms>>

NextReduce == ReduceHorizontalStep \/ StoreStat

SpecReduce == InitReduce /\ [][NextReduce]_vars

----------------------------------------------------------------------------
(* pd_t::init *)

\* mayiuse(isa) on a machine with the feature set hw
mayiuse(d, isa) == isa \in d.hw

\* the first VDISPATCH_GNORM check of pd_t::init that fails, "none" if all pass
\* up to the test of C_PER_G
dispatch_checks(d) ==
    IF ~d.is_fwd THEN "VERBOSE_BAD_PROPKIND"
    ELSE IF ~mayiuse(d, "avx2") THEN "VERBOSE_UNSUPPORTED_ISA"
    ELSE IF d.has_zero_dim_memory THEN "VERBOSE_EMPTY_TENSOR"
    ELSE IF d.src_dt \notin {"f32", "bf16", "f16", "s8", "u8"}
         THEN "VERBOSE_UNSUPPORTED_DT"
    ELSE IF d.dst_dt \notin {"f32", "bf16", "f16", "s8", "u8"}
         THEN "VERBOSE_UNSUPPORTED_DT"
    ELSE IF "bf16" \in {d.src_dt, d.dst_dt}
            /\ ~(mayiuse(d, "avx512_core") \/ mayiuse(d, "avx2_vnni_2"))
         THEN "VERBOSE_ISA_DT_MISMATCH"
    ELSE IF "f16" \in {d.src_dt, d.dst_dt}
            /\ ~(mayiuse(d, "avx512_core_fp16") \/ mayiuse(d, "avx2_vnni_2"))
         THEN "VERBOSE_ISA_DT_MISMATCH"
    ELSE IF d.external = "attr" THEN "VERBOSE_UNSUPPORTED_ATTR"
    ELSE IF d.external = "scales" THEN "VERBOSE_UNSUPPORTED_SCALES_CFG"
    ELSE IF d.external = "formats" THEN "VERBOSE_UNSUPPORTED_TAG"
    ELSE IF ~d.src_tag_ok THEN "VERBOSE_UNSUPPORTED_TAG_S"
    ELSE IF ~d.dst_tag_ok THEN "VERBOSE_UNSUPPORTED_TAG_S"
    ELSE "none"

\* what init books for a descriptor it accepts
init_booking(d) ==
    book_scratchpad([N |-> d.N, G |-> d.G, CPG |-> d.C \div d.G,
                     nthr |-> d.max_threads, stats_is_src |-> d.stats_is_src,
                     is_training |-> d.is_training])

\* mutant of pd_init: a group of one channel is accepted
pd_init_single_channel(d, p) ==
    IF dispatch_checks(d) # "none" THEN [p EXCEPT !.status = "unimplemented"]
    ELSE IF ~(d.C \div d.G >= 1) THEN [p EXCEPT !.status = "unimplemented"]
    ELSE IF d.external = "post_ops_formats" THEN [p EXCEPT !.status = "unimplemented"]
    ELSE IF ~d.post_ops_ok THEN [p EXCEPT !.status = "unimplemented"]
    ELSE [status |-> "success"] @@ init_booking(d)

\* pd_t::init(engine) on the primitive descriptor p: the descriptor after it
pd_init(d, p) ==
    IF dispatch_checks(d) # "none" THEN [p EXCEPT !.status = "unimplemented"]
    ELSE IF ~(d.C \div d.G > 1) THEN [p EXCEPT !.status = "unimplemented"]
    ELSE IF d.external = "post_ops_formats" THEN [p EXCEPT !.status = "unimplemented"]
    ELSE IF ~d.post_ops_ok THEN [p EXCEPT !.status = "unimplemented"]
    ELSE [status |-> "success"] @@ init_booking(d)

\* is_superset(isa, base) of cpu_isa_traits.hpp, for the two kernel variants
is_superset(isa, base) ==
    \/ isa = base
    \/ (isa = "avx512_core" /\ base \in {"avx2", "avx"})
    \/ (isa = "avx2" /\ base = "avx")

\* lines 36-40
get_supported_isa(d) ==
    IF mayiuse(d, "avx512_core") THEN "avx512_core"
    ELSE IF mayiuse(d, "avx2") THEN "avx2" ELSE "isa_undef"

\* lines 42-52: the instruction set the io helper of a kernel is built for
get_io_isa(d, isa, has_f16, has_bf16) ==
    IF has_f16 \/ has_bf16
    THEN IF is_superset(isa, "avx512_core")
         THEN (IF has_f16 THEN "avx512_core_fp16"
               ELSE IF mayiuse(d, "avx512_core_bf16") THEN "avx512_core_bf16"
               ELSE "avx512_core")
         ELSE "avx2_vnni_2"
    ELSE isa

\* kernel_base_t::create and kernel_stat_base_t::create: the template argument
kernel_create(d) ==
    IF mayiuse(d, "avx512_core") THEN "avx512_core"
    ELSE IF mayiuse(d, "avx2") THEN "avx2" ELSE "nullptr"

\* the io_isa computed by the constructor of kernel_t (lines 98-100)
kernel_io_isa(d) ==
    get_io_isa(d, kernel_create(d), "f16" \in {d.src_dt, d.dst_dt},
               "bf16" \in {d.src_dt, d.dst_dt})

\* the io_isa computed by the constructor of kernel_stat_t (lines 412-414)
kernel_stat_io_isa(d) ==
    get_io_isa(d, kernel_create(d), "f16" \in {d.src_dt}, "bf16" \in {d.src_dt})

PdInit ==
    /\ phase = "created"
    /\ pd' = pd_init(cfg, pd)
    /\ phase' = "initialized"
    /\ UNCHANGED <<cfg, algo, done, bufs, dst, oob, wlog, rlog, calls, code,
                   kernels, trace, vmms>>

\* the primitive creates its three kernels for an accepted descriptor
CreateKernels ==
    /\ phase = "initialized" /\ pd.status = "success"
    /\ kernels' = [isa |-> kernel_create(cfg), io_isa |-> kernel_io_isa(cfg),
                   stat_io_isa |-> kernel_stat_io_isa(cfg)]
    /\ phase' = "kernels_created"
    /\ UNCHANGED <<cfg, algo, done, bufs, dst, oob, wlog, rlog, calls, pd, code,
                   trace, vmms>>

\* feature sets of the machines, every combination of the five flags in which
\* avx512_core and avx2_vnni_2 come with avx2, avx512_core_bf16 with
\* avx512_core and avx512_core_fp16 with avx512_core_bf16
HwSets ==
    {{}, {"avx2"}, {"avx2", "avx2_vnni_2"}, {"avx2", "avx512_core"},
     {"avx2", "avx2_vnni_2", "avx512_core"},
     {"avx2", "avx512_core", "avx512_core_bf16"},
     {"avx2", "avx2_vnni_2", "avx512_core", "avx512_core_bf16"},
     {"avx2", "avx512_core", "avx512_core_bf16", "avx512_core_fp16"},
     {"avx2", "avx2_vnni_2", "avx512_core", "avx512_core_bf16",
      "avx512_core_fp16"}}

DataTypes == {"f32", "bf16", "f16", "s8", "u8", "s32"}

\* source and destination types: one of them f32, both the same, or the two
\* 16-bit float types together
DtPairs ==
    {p \in DataTypes \X DataTypes :
        p[1] = "f32" \/ p[2] = "f32" \/ p[1] = p[2] \/ {p[1], p[2]} = {"bf16", "f16"}}

Descriptor(f, hw, sdt, ddt, ext, cg, st) ==
    [is_fwd |-> f[1], has_zero_dim_memory |-> f[2], src_tag_ok |-> f[3],
     dst_tag_ok |-> f[4], post_ops_ok |-> f[5], hw |-> hw, src_dt |-> sdt,
     dst_dt |-> ddt, external |-> ext, C |-> cg[1], G |-> cg[2], N |-> 1,
     max_threads |-> MaxThr, stats_is_src |-> st[1], is_training |-> st[2]]

\* the descriptors init is called with.  external names the check left to code
\* outside this file that fails, if any; one is made to fail only where every
\* check of this file passes or the post-op list is refused
InitConfigs ==
    {Descriptor(f, hw, dt[1], dt[2], "none", cg, st) :
        f \in BOOLEAN \X BOOLEAN \X BOOLEAN \X BOOLEAN \X BOOLEAN,
        hw \in HwSets, dt \in DtPairs,
        cg \in {<<2, 2>>, <<3, 2>>, <<64, 2>>},
        st \in {<<FALSE, FALSE>>, <<FALSE, TRUE>>, <<TRUE, FALSE>>}}
    \cup
    {Descriptor(<<TRUE, FALSE, TRUE, TRUE, po>>, hw, dt[1], dt[2], ext, <<64, 2>>,
                <<FALSE, FALSE>>) :
        po \in BOOLEAN, hw \in HwSets, dt \in DtPairs,
        ext \in {"attr", "scales", "formats", "post_ops_formats"}}

InitInit ==
    /\ cfg \in InitConfigs
    /\ pd = [status |-> "none", nthr_ |-> 0, booked |-> << >>]
    /\ phase = "created"
    /\ algo = "none"
    /\ done = {}
    /\ bufs = << >>
    /\ dst = << >>
    /\ oob = {}
    /\ wlog = << >>
    /\ rlog = << >>
    /\ calls = [mean |-> 0, var |-> 0, norm |-> 0, reduce |-> 0]
    /\ code = << >>
    /\ kernels = no_kernels
    /\ trace = << >>
    /\ vmms = << >>

NextInit == PdInit \/ CreateKernels

SpecInit == InitInit /\ [][NextInit]_vars

----------------------------------------------------------------------------
(* Reference values and views of the state used by the properties *)

\* element i of group g of sample n: spatial position i \div C_PER_G, channel
\* g * C_PER_G + i % C_PER_G
GroupElem(c, n, g, i) ==
    SrcAt(c, (n * c.SP + (i \div c.CPG)) * c.C_padded + g * c.CPG + (i % c.CPG))

\* sum of the elements lo .. hi - 1 of the group
RECURSIVE SumRange(_, _, _, _, _)
SumRange(c, n, g, lo, hi) ==
    IF lo >= hi THEN 0 ELSE GroupElem(c, n, g, lo) + SumRange(c, n, g, lo + 1, hi)

\* sum over the elements lo .. hi - 1 of the group of (d * x - S)^2
RECURSIVE SqDevRange(_, _, _, _, _, _)
SqDevRange(c, n, g, S, lo, hi) ==
    IF lo >= hi THEN 0
    ELSE (Den(c) * GroupElem(c, n, g, lo) - S) * (Den(c) * GroupElem(c, n, g, lo) - S)
         + SqDevRange(c, n, g, S, lo + 1, hi)

\* sum of the group's elements; the mean is RefSum / d
RefSum(c, n, g) == SumRange(c, n, g, 0, Den(c))

\* with S = RefSum, the variance is RefSqDev / d^3
RefSqDev(c, n, g) == SqDevRange(c, n, g, RefSum(c, n, g), 0, Den(c))

\* the float at index i of buffer b
StatAt(b, i) == IF i \in DOMAIN bufs[b] THEN bufs[b][i] ELSE GarbageQ

\* the part of RefSum and of RefSqDev over len spatial positions from sp0
ChunkSum(c, n, g, sp0, len) ==
    SumRange(c, n, g, sp0 * c.CPG, (sp0 + len) * c.CPG)

ChunkSqDev(c, n, g, sp0, len) ==
    SqDevRange(c, n, g, RefSum(c, n, g), sp0 * c.CPG, (sp0 + len) * c.CPG)

\* the slots of stat_reduction and, for slot i, its sample, group and the
\* spatial range of its chunk
Slots == 0 .. (cfg.N * cfg.G * Min(cfg.nthr, cfg.G) - 1)
SlotN(i) == i \div (cfg.G * Min(cfg.nthr, cfg.G))
SlotG(i) == i % cfg.G
SlotChunk(i) == (i % (cfg.G * Min(cfg.nthr, cfg.G))) \div cfg.G
SlotSp0(i) == SlotChunk(i) * (cfg.SP \div Min(cfg.nthr, cfg.G))
SlotLen(i) ==
    IF SlotChunk(i) = Min(cfg.nthr, cfg.G) - 1
    THEN cfg.SP - SlotSp0(i) ELSE cfg.SP \div Min(cfg.nthr, cfg.G)

\* number of divisions by d a value has gone through (any, for a zero)
DividedTimes(v, k) == v[1] = 0 \/ v[2] = k

Units == {<<n, g>> : n \in 0 .. (cfg.N - 1), g \in 0 .. (cfg.G - 1)}

Finished == phase = "done"

----------------------------------------------------------------------------
(* C1: execute_forward selects the single-threaded-group algorithm (Strategy *)
(* A) if and only if C / G is at least 32, whatever the thread count, N, G   *)
(* and the spatial size; 32 selects it, 31 does not.                         *)
C1_StrategyThreshold ==
    algo # "none" =>
        /\ (algo = "single") <=> ((cfg.G * cfg.CPG) \div cfg.G >= 32)
        /\ cfg.CPG = 32 => algo = "single"
        /\ cfg.CPG = 31 => algo = "multi"
        /\ (algo = "multi") <=> (phase \in {"multi_mean", "multi_var", "multi_norm"}
                                 \/ (Finished /\ calls.reduce + calls.norm > 0
                                     /\ (cfg.G * cfg.CPG) \div cfg.G < 32))

C1_Witness ==
    /\ Finished /\ algo = "single" /\ cfg.CPG = 32
    /\ cfg.nthr = MaxThr /\ cfg.N = 1 /\ cfg.G = 1 /\ cfg.SP = 1

(* C2: with computed statistics, after execute_forward returns, mean[n, g]  *)
(* is the sum of exactly the elements of group g of sample n divided by      *)
(* C_PER_G * SP, and variance[n, g] is the sum of their squared deviations   *)
(* from that mean divided by C_PER_G * SP (exact arithmetic), under both     *)
(* algorithms and every thread count.                                        *)
C2_StatsMatchTwoPass ==
    (Finished /\ calculate_stats(cfg)) =>
        \A u \in Units :
            /\ QEq(cfg, StatAt(mean_buf(cfg), u[1] * cfg.G + u[2]),
                   <<RefSum(cfg, u[1], u[2]), 1>>)
            /\ QEq(cfg, StatAt(variance_buf(cfg), u[1] * cfg.G + u[2]),
                   <<RefSqDev(cfg, u[1], u[2]), 3>>)

C2_Witness ==
    /\ Finished /\ calculate_stats(cfg) /\ algo = "multi"
    /\ cfg.CPG = 31 /\ cfg.SP = 2 /\ cfg.G = 2 /\ cfg.nthr = 3 /\ cfg.W = 8
    /\ RefSqDev(cfg, 0, 1) > 0

(* C3: the statistics kernel divides its sum by C_PER_G * SP exactly when    *)
(* the scheduler chose the single-threaded-group algorithm, and reduce runs  *)
(* (and divides) exactly when it chose the other; so every final mean and    *)
(* variance has been divided exactly once, and under the multi-threaded      *)
(* algorithm a scratch slot holds an undivided partial sum.  (In <<num, k>>  *)
(* k counts the divisions by d: 1 for a mean divided once, 2 for a sum of    *)
(* squared deviations from it, 3 for a variance divided once.)               *)
C3_DividedExactlyOnce ==
    /\ algo # "none" => (kernel_divides(cfg) <=> algo = "single")
    /\ algo = "single" => calls.reduce = 0
    /\ (Finished /\ calculate_stats(cfg)) =>
        /\ (calls.reduce = 2) <=> (algo = "multi")
        /\ \A i \in 0 .. (cfg.N * cfg.G - 1) :
            /\ DividedTimes(StatAt(mean_buf(cfg), i), 1)
            /\ DividedTimes(StatAt(variance_buf(cfg), i), 3)
    /\ (phase = "multi_mean" /\ done = Threads) =>
        \A i \in Slots :
            /\ DividedTimes(StatAt("key_gnorm_reduction", i), 0)
            /\ QEq(cfg, StatAt("key_gnorm_reduction", i),
                   <<ChunkSum(cfg, SlotN(i), SlotG(i), SlotSp0(i), SlotLen(i)), 0>>)
    /\ (phase = "multi_var" /\ done = Threads) =>
        \A i \in Slots :
            /\ DividedTimes(StatAt("key_gnorm_reduction", i), 2)
            /\ QEq(cfg, StatAt("key_gnorm_reduction", i),
                   <<ChunkSqDev(cfg, SlotN(i), SlotG(i), SlotSp0(i), SlotLen(i)), 2>>)

C3_Witness ==
    /\ Finished /\ calculate_stats(cfg) /\ algo = "multi" /\ calls.reduce = 2
    /\ cfg.CPG = 31 /\ cfg.nthr = 2 /\ cfg.G = 2
    /\ StatAt(variance_buf(cfg), cfg.N * cfg.G - 1)[1] > 0
    /\ StatAt(variance_buf(cfg), cfg.N * cfg.G - 1)[2] = 3

----------------------------------------------------------------------------
(* Sequential executions, to compare the outcome of an interleaving with *)

\* the dst contents a set of stored rows leaves: <<offset, value>> pairs
RowsImage(c, rows) ==
    UNION {{<<rows[k].dst + j, dst_value(c, rows[k], j)>> : j \in compute_dst(c)} :
                k \in DOMAIN rows}

\* the dst offsets a set of stored rows writes
RowsOffsets(c, rows) ==
    UNION {{rows[k].dst + j : j \in compute_dst(c)} : k \in DOMAIN rows}

DstContents == UNION {RowsImage(cfg, dst[t]) : t \in DOMAIN dst}

\* one parallel region with its threads run one after the other, in index order
RECURSIVE SeqRegion(_, _, _, _, _)
SeqRegion(c, p, acc, which, t) ==
    IF t >= p.nthr_ THEN acc
    ELSE LET st == IF which = "single"
                   THEN thread_single(c, p, acc.bufs, t, p.nthr_)
                   ELSE thread_multi(c, p, acc.bufs, which, t, p.nthr_)
         IN  SeqRegion(c, p, [bufs |-> st.bufs, rows |-> acc.rows \o st.rows],
                       which, t + 1)

\* execute_forward for configuration c, the threads of every region in order
SeqExec(c) ==
    LET p == [status |-> "success"] @@ book_scratchpad(c)
        a0 == [bufs |-> InitBufs(c), rows |-> << >>]
    IN  IF single_kernel(c) THEN SeqRegion(c, p, a0, "single", 0)
        ELSE IF ~calculate_stats(c) THEN SeqRegion(c, p, a0, "norm", 0)
        ELSE LET a1 == SeqRegion(c, p, a0, "mean", 0)
                 b2 == reduce(c, p, a1.bufs, mean_buf(c), "key_gnorm_reduction").bufs
                 a3 == SeqRegion(c, p, [bufs |-> b2, rows |-> << >>], "var", 0)
                 b4 == reduce(c, p, a3.bufs, variance_buf(c),
                              "key_gnorm_reduction").bufs
             IN  SeqRegion(c, p, [bufs |-> b4, rows |-> << >>], "norm", 0)

\* the observable result: mean, variance and destination
Outcome(c, b, image) ==
    [mean |-> b[mean_buf(c)], variance |-> b[variance_buf(c)], dst |-> image]

SeqOutcome(c) ==
    LET r == SeqExec(c) IN Outcome(c, r.bufs, RowsImage(c, r.rows))

\* the partial sums of entry (n, g) added in ascending chunk index
RECURSIVE AscFold(_, _, _)
AscFold(n, g, k) ==
    IF k = 0 THEN QZero
    ELSE FAdd(cfg, AscFold(n, g, k - 1),
              StatAt("key_gnorm_reduction",
                     n * Min(cfg.nthr, cfg.G) * cfg.G + (k - 1) * cfg.G + g))

\* no location is written by one thread and read or written by another in the
\* current parallel region
NoRace ==
    /\ \A t \in done : \A u \in done \ {t} :
            wlog[t] \cap (wlog[u] \cup rlog[u]) = {}
    /\ done = Threads => \A t \in DOMAIN dst : \A u \in (DOMAIN dst) \ {t} :
            RowsOffsets(cfg, dst[t]) \cap RowsOffsets(cfg, dst[u]) = {}

(* C4: for a fixed input, configuration and thread count every interleaving *)
(* of the threads of each parallel region leaves the same scratch slots,     *)
(* mean, variance and destination: no location is written by one thread and  *)
(* read or written by another within a region, and reduce adds the partial   *)
(* sums of an entry in ascending chunk index (addition is non-associative    *)
(* in this specification).                                                   *)
C4_InterleavingDeterminism ==
    /\ NoRace
    /\ Finished =>
        LET r == SeqExec(cfg)
        IN  /\ bufs = r.bufs
            /\ DstContents = RowsImage(cfg, r.rows)
    /\ (phase = "multi_var" /\ done = {}) =>
        \A u \in Units :
            StatAt(mean_buf(cfg), u[1] * cfg.G + u[2])
                = FDivD(cfg, AscFold(u[1], u[2], Min(cfg.nthr, cfg.G)))
    /\ (phase = "multi_norm" /\ done = {} /\ calculate_stats(cfg)) =>
        \A u \in Units :
            StatAt(variance_buf(cfg), u[1] * cfg.G + u[2])
                = FDivD(cfg, AscFold(u[1], u[2], Min(cfg.nthr, cfg.G)))

C4_Witness ==
    /\ Finished /\ algo = "multi" /\ calculate_stats(cfg) /\ cfg.fp
    /\ cfg.nthr = 3 /\ cfg.G = 3 /\ cfg.SP = 3
    /\ dst[0] # << >> /\ dst[1] # << >> /\ dst[2] # << >>
    /\ \A k \in 0 .. 2 : StatAt("key_gnorm_reduction", k * cfg.G)[1] > 0

(* C5 (amended): for a fixed input and configuration, two thread counts give *)
(* identical mean, variance and output when C / G >= 32, or when they have   *)
(* the same min(thread count, G); addition is non-associative here.  The     *)
(* outcome is compared with that of the least such thread count.             *)
C5_SameOutcomeForSameChunking ==
    Finished =>
        Outcome(cfg, bufs, DstContents)
            = SeqOutcome([cfg EXCEPT !.nthr = IF single_kernel(cfg) THEN 1
                                               ELSE Min(cfg.nthr, cfg.G)])

C5_Witness ==
    /\ Finished /\ cfg.fp /\ algo = "multi" /\ calculate_stats(cfg)
    /\ cfg.nthr = 3 /\ cfg.G = 2 /\ cfg.SP = 3 /\ cfg.N = 2
    /\ StatAt(variance_buf(cfg), 0)[1] > 0

(* C5 as stated: the outcome is the same for every number of threads, in     *)
(* particular the same as with one thread.                                    *)
C5_SameOutcomeForAnyThreadCount ==
    Finished => Outcome(cfg, bufs, DstContents) = SeqOutcome([cfg EXCEPT !.nthr = 1])

\* the offsets of the elements (n, spatial position, channel) of the tensor
ValidOffsets ==
    {(n * cfg.SP + sp) * cfg.C_padded + ch :
        n \in 0 .. (cfg.N - 1), sp \in 0 .. (cfg.SP - 1),
        ch \in 0 .. (cfg.G * cfg.CPG - 1)}

(* C6: after execute_forward returns every destination element (n, spatial  *)
(* position, channel) has been stored exactly once, by one thread, and no    *)
(* location outside those elements has been stored to, under both algorithms *)
(* and every thread count, with and without a tail of C_PER_G and with SP    *)
(* not a multiple of the number of chunks.                                   *)
C6_DstWrittenExactlyOnce ==
    Finished =>
        LET stored == StoredOffsets
        IN  /\ stored = ValidOffsets
            \* no two stores hit the same offset
            /\ Cardinality(Stores) = Cardinality(stored)

C6_Witness ==
    /\ Finished /\ algo = "multi"
    /\ cfg.CPG = 3 /\ cfg.W = 8 /\ cfg.G = 2 /\ cfg.SP = 3 /\ cfg.N = 2
    /\ cfg.nthr = 3
    /\ StoredOffsets = ValidOffsets
    /\ \A t \in Threads : dst[t] # << >>

\* the calls of the statistics kernels execute_forward makes: source offset,
\* index of the entry in the statistics buffers and block size
KernelCalls ==
    IF algo = "single"
    THEN {[src |-> (i \div cfg.G) * cfg.SP * cfg.C_padded + (i % cfg.G) * cfg.CPG,
           idx |-> i, bs |-> cfg.SP] : i \in 0 .. (cfg.N * cfg.G - 1)}
    ELSE {[src |-> item(cfg, pd, i).data_off, idx |-> item(cfg, pd, i).stat_idx,
           bs |-> item(cfg, pd, i).kernel_sp_block_size] : i \in Slots}

\* what the tail block of a statistics kernel call adds to lane l of the
\* accumulator register it works on, as <<before, after>>
TailBlock(compute_var, k, l) ==
    LET mean == IF compute_var THEN StatAt(mean_buf(cfg), k.idx) ELSE QZero
        m == stat_main_blocks(cfg, compute_var, mean, k.src, k.bs)
    IN  <<m.acc[0][l],
          compute_stat_block(cfg, compute_var, m.acc, mean, m.src, 1, TRUE,
                             k.bs)[0][l]>>

TailLanes == {l \in Lanes(cfg) : l >= cfg.CPG % cfg.W}

(* C8: when C_PER_G is not a multiple of the vector width, the lanes at or   *)
(* beyond C_PER_G mod width of the final partial vector add exactly zero to  *)
(* the mean sum and to the sum of squared deviations (8- and 16-lane paths), *)
(* the normalize kernel stores no lane at or beyond that index, and both     *)
(* kernels use the same tail length.                                         *)
C8_TailLanesInert ==
    (Finished /\ cfg.CPG % cfg.W # 0) =>
        /\ calculate_stats(cfg) =>
            \A k \in KernelCalls : \A l \in TailLanes : \A cv \in BOOLEAN :
                TailBlock(cv, k, l)[1] = TailBlock(cv, k, l)[2]
        /\ \A t \in DOMAIN dst : \A i \in DOMAIN dst[t] :
                \A s \in Stores : (s[1] = t /\ s[2] = i) =>
                    s[3] - dst[t][i].dst < cfg.CPG
        /\ stat_tail_(cfg) = cfg.CPG % cfg.W
        /\ norm_tail_(cfg) = stat_tail_(cfg)

C8_Witness ==
    /\ Finished /\ calculate_stats(cfg) /\ algo = "multi"
    /\ cfg.CPG = 31 /\ cfg.W = 8 /\ cfg.G = 2 /\ cfg.nthr = 2
    /\ \E k \in KernelCalls : \E l \in Lanes(cfg) \ TailLanes :
            /\ StatAt(mean_buf(cfg), k.idx)[1] > 0
            /\ TailBlock(TRUE, k, l)[1] # TailBlock(TRUE, k, l)[2]

\* the buffers whose contents differ from those at entry
Changed == {b \in BufNames : bufs[b] # InitBufs(cfg)[b]}

\* the buffers read inside the current parallel region
ReadBufs == {x[1] : x \in UNION {rlog[t] : t \in DOMAIN rlog}}

AllEntries == 0 .. (cfg.N * cfg.G - 1)

(* C9: with supplied statistics execute_forward reads the caller's input    *)
(* mean and variance, runs no statistics kernel and no reduce, and leaves    *)
(* them and the scratch unchanged; with computed statistics in training it   *)
(* writes the caller's output buffers; with computed statistics in inference *)
(* it writes only the transient scratch buffers, which init booked exactly   *)
(* in that case.                                                              *)
C9_StatBufferSelection ==
    /\ cfg.stats_is_src =>
        /\ Changed = {}
        /\ calls.mean = 0 /\ calls.var = 0 /\ calls.reduce = 0
        /\ ReadBufs \subseteq {"CTX_IN_MEAN", "CTX_IN_VARIANCE"}
        /\ Finished => ReadBufs = {"CTX_IN_MEAN", "CTX_IN_VARIANCE"}
    /\ (~cfg.stats_is_src /\ cfg.is_training) =>
        /\ Changed \subseteq {"CTX_OUT_MEAN", "CTX_OUT_VARIANCE", "key_gnorm_reduction"}
        /\ ReadBufs \subseteq {"CTX_OUT_MEAN", "CTX_OUT_VARIANCE", "key_gnorm_reduction"}
        /\ Finished => /\ DOMAIN bufs["CTX_OUT_MEAN"] = AllEntries
                       /\ DOMAIN bufs["CTX_OUT_VARIANCE"] = AllEntries
    /\ (~cfg.stats_is_src /\ ~cfg.is_training) =>
        /\ Changed \subseteq {"key_gnorm_tmp_mean", "key_gnorm_tmp_var",
                              "key_gnorm_reduction"}
        /\ ReadBufs \subseteq {"key_gnorm_tmp_mean", "key_gnorm_tmp_var",
                               "key_gnorm_reduction"}
        /\ Finished => /\ DOMAIN bufs["key_gnorm_tmp_mean"] = AllEntries
                       /\ DOMAIN bufs["key_gnorm_tmp_var"] = AllEntries
    /\ ("key_gnorm_tmp_mean" \in DOMAIN pd.booked)
            <=> (mean_buf(cfg) = "key_gnorm_tmp_mean")
    /\ ("key_gnorm_tmp_var" \in DOMAIN pd.booked)
            <=> (variance_buf(cfg) = "key_gnorm_tmp_var")
    /\ ("key_gnorm_tmp_mean" \in DOMAIN pd.booked)
            <=> (~cfg.stats_is_src /\ ~cfg.is_training)

C9_Witness ==
    /\ Finished /\ ~cfg.stats_is_src /\ ~cfg.is_training /\ algo = "multi"
    /\ cfg.N = 2 /\ cfg.G = 2
    /\ Changed = {"key_gnorm_tmp_mean", "key_gnorm_tmp_var", "key_gnorm_reduction"}
    /\ "key_gnorm_tmp_var" \in DOMAIN pd.booked

----------------------------------------------------------------------------
(* The value a generated instruction sequence stores, as a term *)

Mem(ptr, off, tail) == <<"mem", ptr, off, tail>>

RegsAtEntry ==
    [r \in {"vmm_scale", "vmm_shift", "vmm_dst", "vmm_mean", "vmm_inv_sqrtvar",
            "vmm_qscale", "vmm_eps", "vmm_ones"} |->
        IF r = "vmm_eps" THEN <<"eps">>
        ELSE IF r = "vmm_ones" THEN <<"one">> ELSE <<"undefined", r>>]

\* the register file after one instruction
Execute(regs, i) ==
    CASE i.op = "load" -> [regs EXCEPT ![i.d] = Mem(i.a[1], i.a[2], i.b)]
      [] i.op = "broadcast" -> [regs EXCEPT ![i.d] = <<"broadcast", i.a[1]>>]
      [] i.op = "uni_vmovups" -> [regs EXCEPT ![i.d] = Mem(i.a[1], i.a[2], i.b)]
      [] i.op = "uni_vaddps" -> [regs EXCEPT ![i.d] = <<"add", regs[i.a], regs[i.b]>>]
      [] i.op = "uni_vsubps" -> [regs EXCEPT ![i.d] = <<"sub", regs[i.a], regs[i.b]>>]
      [] i.op = "uni_vmulps" -> [regs EXCEPT ![i.d] = <<"mul", regs[i.a], regs[i.b]>>]
      [] i.op = "uni_vdivps" -> [regs EXCEPT ![i.d] = <<"div", regs[i.a], regs[i.b]>>]
      [] i.op = "uni_vsqrtps" -> [regs EXCEPT ![i.d] = <<"sqrt", regs[i.a]>>]
      [] i.op = "uni_vfmadd213ps" ->
            [regs EXCEPT ![i.d] = <<"fma", regs[i.d], regs[i.a], regs[i.b]>>]
      [] i.op = "compute_vector" -> [regs EXCEPT ![i.d] = <<"postops", regs[i.d]>>]
      [] OTHER -> regs

\* the stores of an instruction sequence: <<offset, tail, term stored>>
RECURSIVE StoresOf(_, _, _)
StoresOf(prog, k, regs) ==
    IF k > Len(prog) THEN << >>
    ELSE IF prog[k].op = "store"
         THEN <<<<prog[k].a[2], prog[k].b, regs[prog[k].d]>>>>
              \o StoresOf(prog, k + 1, regs)
         ELSE StoresOf(prog, k + 1, Execute(regs, prog[k]))

\* the steps of the normalize kernel applied to one vector block, in the order
\* load, subtract mean, multiply by 1 / sqrt(var + eps), affine, source scale,
\* post-ops, destination scale
StepsInOrder(c, off, tail) ==
    LET x0 == Mem("src_ptr", off, tail)
        x1 == <<"sub", x0, <<"broadcast", "mean_ptr">>>>
        x2 == <<"mul", x1, <<"div", <<"one">>,
                    <<"sqrt", <<"add", <<"broadcast", "var_ptr">>, <<"eps">>>>>>>>>>
        x3 == IF c.use_scale /\ c.use_shift
              THEN <<"fma", x2, Mem("scale_ptr", off, tail), Mem("shift_ptr", off, tail)>>
              ELSE IF c.use_scale THEN <<"mul", x2, Mem("scale_ptr", off, tail)>>
              ELSE IF c.use_shift THEN <<"add", x2, Mem("shift_ptr", off, tail)>>
              ELSE x2
        x4 == IF c.with_src_scales
              THEN <<"mul", x3, Mem("reg_src_scales", 0, FALSE)>> ELSE x3
        x5 == IF c.with_postops THEN <<"postops", x4>> ELSE x4
    IN  IF c.with_dst_scales
        THEN <<"mul", x5, Mem("reg_dst_scales", 0, FALSE)>> ELSE x5

\* number of vector blocks of a group: the full ones and the tail
NBlocks(c) == (c.CPG \div c.W) + (IF c.CPG % c.W # 0 THEN 1 ELSE 0)

(* C7: for every vector block the normalize kernel emits, full or tail, and  *)
(* every combination of use_scale, use_shift, with_src_scales, with_postops  *)
(* and with_dst_scales, the value stored is the source with the steps        *)
(* applied in the order: subtract mean, multiply by 1 / sqrt(var + eps),     *)
(* affine (one fused multiply-add when both are present), source scale,      *)
(* post-ops, destination scale; a step is present exactly when its flag is   *)
(* set, the store is the last instruction of the block, and the destination  *)
(* scale is never applied before the post-ops.                                *)
C7_FixedOperationOrder ==
    phase = "generated" =>
        LET stores == StoresOf(code, 1, RegsAtEntry)
        IN  /\ Len(stores) = NBlocks(cfg)
            /\ \A k \in DOMAIN stores :
                /\ stores[k][1] = (k - 1) * cfg.W
                /\ stores[k][2] = (k * cfg.W > cfg.CPG)
                /\ stores[k][3] = StepsInOrder(cfg, stores[k][1], stores[k][2])
            /\ code # << >> => code[Len(code)].op = "store"

C7_Witness ==
    /\ phase = "generated"
    /\ cfg.use_scale /\ cfg.use_shift /\ cfg.with_src_scales /\ cfg.with_postops
    /\ cfg.with_binary /\ cfg.with_dst_scales
    /\ cfg.CPG = 33 /\ cfg.W = 16
    /\ Len(StoresOf(code, 1, RegsAtEntry)) = 3
    /\ StoresOf(code, 1, RegsAtEntry)[3][2]

\* the conditions under which init must refuse the configuration
Refused(d) ==
    \/ ~d.is_fwd
    \/ "avx2" \notin d.hw
    \/ d.has_zero_dim_memory
    \/ d.src_dt \notin {"f32", "bf16", "f16", "s8", "u8"}
    \/ d.dst_dt \notin {"f32", "bf16", "f16", "s8", "u8"}
    \/ ("bf16" \in {d.src_dt, d.dst_dt}
        /\ d.hw \cap {"avx512_core", "avx2_vnni_2"} = {})
    \/ ("f16" \in {d.src_dt, d.dst_dt}
        /\ d.hw \cap {"avx512_core_fp16", "avx2_vnni_2"} = {})
    \/ ~d.src_tag_ok
    \/ ~d.dst_tag_ok
    \/ d.C \div d.G <= 1
    \/ ~d.post_ops_ok

(* C10: pd_t::init returns a non-success status, records no thread count    *)
(* and books no scratch memory whenever the configuration is not forward,    *)
(* lacks AVX2, has a zero dimension, has a source or destination type        *)
(* outside {f32, bf16, f16, s8, u8}, asks for bf16 or f16 without the        *)
(* hardware support for it, has a source or destination layout that is not   *)
(* channel-last, has C / G <= 1, or has a post-op list that is not accepted; *)
(* it returns success only when none of these holds.                          *)
C10_InitRejects ==
    phase = "initialized" =>
        /\ Refused(cfg) =>
            /\ pd.status # "success"
            /\ pd.nthr_ = 0
            /\ pd.booked = << >>
        /\ pd.status = "success" =>
            /\ ~Refused(cfg)
            /\ pd.nthr_ = cfg.max_threads

C10_Witness ==
    /\ phase = "initialized"
    /\ cfg.C \div cfg.G = 1 /\ cfg.is_fwd /\ cfg.hw = {"avx2"}
    /\ cfg.src_dt = "f32" /\ cfg.dst_dt = "u8" /\ cfg.external = "none"
    /\ ~cfg.has_zero_dim_memory /\ cfg.src_tag_ok /\ cfg.dst_tag_ok
    /\ cfg.post_ops_ok
    /\ pd.status = "unimplemented" /\ pd.nthr_ = 0

(* C11: for every combination of hardware flags and source / destination     *)
(* types pd_t::init accepts, the kernels are instantiated for avx512_core     *)
(* when the machine has it and for avx2 otherwise, and the instruction set    *)
(* get_io_isa returns for each kernel is one the machine has; in particular   *)
(* an f16 type never gets avx512_core_fp16 on a machine without it.           *)
C11_IoIsaSupported ==
    phase = "kernels_created" =>
        /\ kernels.isa = IF "avx512_core" \in cfg.hw THEN "avx512_core" ELSE "avx2"
        /\ kernels.io_isa \in cfg.hw
        /\ kernels.stat_io_isa \in cfg.hw
        /\ ("f16" \in {cfg.src_dt, cfg.dst_dt}
            /\ kernels.io_isa = "avx512_core_fp16")
                => "avx512_core_fp16" \in cfg.hw

\* the accepted descriptor whose kernels use an instruction set the machine lacks
C11_Witness ==
    /\ phase = "kernels_created" /\ pd.status = "success"
    /\ cfg.hw = {"avx2", "avx2_vnni_2", "avx512_core"}
    /\ cfg.src_dt = "f16" /\ cfg.dst_dt = "f32"
    /\ kernels.isa = "avx512_core"
    /\ kernels.io_isa = "avx512_core_fp16" /\ kernels.stat_io_isa = "avx512_core_fp16"

\* what does hold: the io instruction set is one the machine has unless an f16
\* type was accepted through avx2_vnni_2 on a machine with avx512_core
C11_IoIsaSupportedUnlessF16OnAvx512 ==
    phase = "kernels_created" =>
        /\ kernels.isa = IF "avx512_core" \in cfg.hw THEN "avx512_core" ELSE "avx2"
        /\ (kernels.io_isa \notin cfg.hw \/ kernels.stat_io_isa \notin cfg.hw)
            => /\ "f16" \in {cfg.src_dt, cfg.dst_dt}
               /\ {"avx2_vnni_2", "avx512_core"} \subseteq cfg.hw
               /\ "avx512_core_fp16" \notin cfg.hw
        /\ ("f16" \notin {cfg.src_dt, cfg.dst_dt}) => kernels.stat_io_isa \in cfg.hw

\* every kernel call of the algorithm chosen ends: its spatial loop after
\* block_size iterations, the channel-block loop after nc_blocks_
LoopsEnd ==
    algo # "none" =>
        /\ \A k \in KernelCalls :
                sp_loop_trips(k.src, k.src + k.bs * kernel_stride(cfg),
                              kernel_stride(cfg), LoopFuel) = k.bs
        /\ c_blk_loop_trips(0, nc_blocks_(cfg), LoopFuel) = nc_blocks_(cfg)

(* C12: for every accepted configuration and every thread count of at least  *)
(* 1, execute_forward ends and returns success: the spatial loop and the      *)
(* channel-block loop of every kernel call end after finitely many            *)
(* iterations, also for a block size of 0, and every parallel region is left  *)
(* once each of its threads, with an empty range or not, has returned.        *)
C12_Terminates == ([]LoopsEnd) /\ <>Finished

C12_Witness ==
    /\ Finished /\ algo = "multi" /\ calculate_stats(cfg)
    /\ cfg.N = 1 /\ cfg.G = 2 /\ cfg.SP = 1 /\ cfg.nthr = 3 /\ cfg.CPG = 3
    \* with a chunk of block size 0
    /\ \E k \in KernelCalls : k.bs = 0
    /\ calls.mean = 4 /\ calls.var = 4 /\ calls.norm = 4
    /\ done = Threads

\* the range of unit indices of thread t under the single-threaded-group
\* algorithm, as a set, and the units whose rows thread t has stored
UnitRange(t) ==
    LET r == thread_range(cfg, pd, "single", t) IN r.start .. (r.end - 1)
UnitOfOffset(o) ==
    (o \div (cfg.SP * cfg.C_padded)) * cfg.G + ((o % cfg.C_padded) \div cfg.CPG)
UnitsStored(t) == {UnitOfOffset(dst[t][k].dst) : k \in DOMAIN dst[t]}
UnitsWritten(t) == {x[2] : x \in wlog[t]}

(* C13: under Strategy A, for every thread count T, N and G, the G * N units *)
(* are split into T contiguous ranges that are pairwise disjoint and cover    *)
(* all units; range sizes differ by at most one and the larger ranges go to   *)
(* the lowest-indexed threads; a thread processes exactly the units of its    *)
(* range, so each unit is processed by exactly one thread, and a thread with  *)
(* an empty range calls no kernel and writes nothing.                         *)
C13_UnitsPartitioned ==
    algo = "single" =>
        /\ thread_range(cfg, pd, "single", 0).start = 0
        /\ thread_range(cfg, pd, "single", cfg.nthr - 1).end = cfg.G * cfg.N
        /\ \A t \in Threads :
            /\ t > 0 => /\ thread_range(cfg, pd, "single", t).start
                            = thread_range(cfg, pd, "single", t - 1).end
                        /\ Cardinality(UnitRange(t)) <= Cardinality(UnitRange(t - 1))
            /\ Cardinality(UnitRange(0)) - Cardinality(UnitRange(t)) \in {0, 1}
            /\ \A u \in Threads \ {t} : UnitRange(t) \cap UnitRange(u) = {}
        /\ UNION {UnitRange(t) : t \in Threads} = 0 .. (cfg.G * cfg.N - 1)
        /\ \A t \in done :
            /\ UnitsStored(t) = UnitRange(t)
            /\ Len(dst[t]) = Cardinality(UnitRange(t)) * cfg.SP
            /\ UnitsWritten(t) = IF calculate_stats(cfg) THEN UnitRange(t) ELSE {}
            /\ UnitRange(t) = {} => (dst[t] = << >> /\ wlog[t] = {} /\ rlog[t] = {})
        /\ \A t \in Threads \ done : dst[t] = << >> /\ wlog[t] = {}
        /\ Finished => /\ calls.norm = cfg.G * cfg.N
                       /\ calls.mean = IF calculate_stats(cfg) THEN cfg.G * cfg.N ELSE 0
                       /\ calls.var = calls.mean

C13_Witness ==
    /\ Finished /\ algo = "single" /\ calculate_stats(cfg)
    /\ cfg.nthr = 3 /\ cfg.G = 2 /\ cfg.N = 2 /\ cfg.CPG = 32
    /\ UnitRange(0) = {0, 1} /\ UnitRange(1) = {2} /\ UnitRange(2) = {3}
    /\ UnitsStored(0) = {0, 1} /\ UnitsStored(2) = {3}

\* the offset of the first element of unit i = n * G + g
UnitOffset(i) ==
    (i \div cfg.G) * cfg.SP * cfg.C_padded + (i % cfg.G) * cfg.CPG

\* the three kernel calls Strategy A makes for unit i, in order
UnitCalls(i) ==
    LET m == <<mean_buf(cfg), i>>
        v == <<variance_buf(cfg), i>>
        sc == IF cfg.use_scale THEN (i % cfg.G) * cfg.CPG ELSE Null
        sh == IF cfg.use_shift THEN (i % cfg.G) * cfg.CPG ELSE Null
    IN  <<KernelCall("mean", UnitOffset(i), Null, Null, Null, m, NoStat, cfg.SP),
          KernelCall("var", UnitOffset(i), Null, Null, Null, m, v, cfg.SP),
          KernelCall("norm", UnitOffset(i), UnitOffset(i), sc, sh, m, v, cfg.SP)>>

(* C14: under Strategy A with computed statistics, for each unit the owning  *)
(* thread calls the mean kernel, then the variance kernel on the mean entry   *)
(* just written, then the normalize kernel on that mean and variance, in that *)
(* order and each with block size SP; the rows stored carry the mean and      *)
(* variance written for their unit; no thread reads an entry another thread   *)
(* writes, and the strategy is one parallel region with no reduce step.       *)
C14_UnitKernelOrder ==
    (algo = "single" /\ calculate_stats(cfg)) =>
        /\ phase \in {"single", "done"} /\ calls.reduce = 0
        /\ \A t \in done :
            LET r == thread_range(cfg, pd, "single", t)
            IN  /\ Len(trace[t]) = 3 * (r.end - r.start)
                /\ \A j \in 0 .. (r.end - r.start - 1) : \A k \in 1 .. 3 :
                        trace[t][3 * j + k] = UnitCalls(r.start + j)[k]
                /\ \A k \in DOMAIN dst[t] :
                        /\ dst[t][k].mean
                            = StatAt(mean_buf(cfg), UnitOfOffset(dst[t][k].dst))
                        /\ dst[t][k].var
                            = StatAt(variance_buf(cfg), UnitOfOffset(dst[t][k].dst))
                /\ \A u \in done \ {t} : rlog[t] \cap wlog[u] = {}
        /\ \A t \in Threads \ done : trace[t] = << >>

C14_Witness ==
    /\ Finished /\ algo = "single" /\ calculate_stats(cfg)
    /\ cfg.nthr = 2 /\ cfg.G = 3 /\ cfg.N = 1 /\ cfg.CPG = 32 /\ cfg.SP = 1
    /\ Len(trace[0]) = 6 /\ Len(trace[1]) = 3
    /\ trace[0][4].kernel = "mean" /\ trace[0][5].kernel = "var"
    /\ trace[0][6].kernel = "norm" /\ trace[0][6].mean = <<mean_buf(cfg), 1>>

\* the kernels a sequence of calls names, and its calls of one kernel
KernelsOf(calls_) == {calls_[k].kernel : k \in DOMAIN calls_}
CallsOf(calls_, kernel) == {k \in DOMAIN calls_ : calls_[k].kernel = kernel}

\* every mean entry, every variance entry holds its final value
MeanFinal ==
    \A u \in Units :
        QEq(cfg, StatAt(mean_buf(cfg), u[1] * cfg.G + u[2]),
            <<RefSum(cfg, u[1], u[2]), 1>>)
VarFinal ==
    \A u \in Units :
        QEq(cfg, StatAt(variance_buf(cfg), u[1] * cfg.G + u[2]),
            <<RefSqDev(cfg, u[1], u[2]), 3>>)

\* the number of work items of thread t under the multi-threaded-group algorithm
ItemsOf(t) ==
    thread_range(cfg, pd, "multi", t).end - thread_range(cfg, pd, "multi", t).start

(* C15: under Strategy B with computed statistics the steps are ordered by   *)
(* barriers: no thread computes a partial variance before the mean reduction  *)
(* has finalized every mean; the mean reduction runs only after every thread  *)
(* has written all its partial means, and the scratch still holds them when   *)
(* the variance region starts; no normalize call is made before the variance  *)
(* reduction has finalized every variance.  With supplied statistics only the *)
(* normalize region runs.                                                     *)
C15_BarrierOrder ==
    algo = "multi" =>
        /\ calculate_stats(cfg) =>
            /\ phase \in {"multi_mean", "multi_var", "multi_norm", "done"}
            /\ phase = "multi_mean" =>
                /\ calls.reduce = 0
                /\ \A t \in Threads : KernelsOf(trace[t]) \subseteq {"mean"}
            /\ phase = "multi_var" =>
                /\ calls.reduce = 1 /\ MeanFinal
                /\ \A t \in Threads :
                    /\ KernelsOf(trace[t]) \subseteq {"mean", "var"}
                    /\ Cardinality(CallsOf(trace[t], "mean")) = ItemsOf(t)
                /\ done = {} => \A i \in Slots :
                        QEq(cfg, StatAt("key_gnorm_reduction", i),
                            <<ChunkSum(cfg, SlotN(i), SlotG(i), SlotSp0(i),
                                       SlotLen(i)), 0>>)
            /\ phase \in {"multi_norm", "done"} =>
                /\ calls.reduce = 2 /\ MeanFinal /\ VarFinal
                /\ \A t \in Threads :
                    /\ Cardinality(CallsOf(trace[t], "mean")) = ItemsOf(t)
                    /\ Cardinality(CallsOf(trace[t], "var")) = ItemsOf(t)
            /\ \A t \in Threads :
                /\ \A j \in CallsOf(trace[t], "var") :
                        \A k \in CallsOf(trace[t], "mean") : k < j
                /\ \A j \in CallsOf(trace[t], "norm") :
                        \A k \in CallsOf(trace[t], "var") : k < j
        /\ ~calculate_stats(cfg) =>
            /\ phase \in {"multi_norm", "done"}
            /\ calls.mean = 0 /\ calls.var = 0 /\ calls.reduce = 0
            /\ \A t \in Threads : KernelsOf(trace[t]) \subseteq {"norm"}

C15_Witness ==
    /\ phase = "multi_norm" /\ done = {1} /\ calculate_stats(cfg)
    /\ cfg.nthr = 3 /\ cfg.G = 2 /\ cfg.N = 1 /\ cfg.SP = 2 /\ cfg.CPG = 31
    /\ KernelsOf(trace[1]) = {"mean", "var", "norm"}
    /\ KernelsOf(trace[0]) = {"mean", "var"}
    /\ calls.reduce = 2 /\ VarFinal
    /\ RefSqDev(cfg, 0, 1) > 0

\* the threads that have written location x in the current parallel region
WritersOf(x) == {t \in DOMAIN wlog : x \in wlog[t]}

\* every location written in the current region
Written == UNION {wlog[t] : t \in DOMAIN wlog}

(* C16: in every parallel region no scratch slot and no mean or variance     *)
(* entry is written by more than one thread.  Under Strategy B each slot i   *)
(* in [0, N * G * nthr_per_g) is written by exactly one thread in the        *)
(* partial-mean region and by exactly one in the partial-variance region,    *)
(* and the threads write no mean or variance entry: these are written by the *)
(* reduce step alone.  Under Strategy A each entry is written by the thread  *)
(* that owns its unit.                                                       *)
C16_SingleWriter ==
    /\ \A x \in Written : Cardinality(WritersOf(x)) = 1
    /\ algo = "multi" =>
        /\ Written \subseteq {<<"key_gnorm_reduction", i>> : i \in Slots}
        /\ (phase \in {"multi_mean", "multi_var"} /\ done = Threads) =>
            /\ Written = {<<"key_gnorm_reduction", i>> : i \in Slots}
            /\ Cardinality(Slots) = cfg.N * cfg.G * nthr_per_g(cfg, pd)
            /\ (IF phase = "multi_mean" THEN calls.mean ELSE calls.var)
                    = Cardinality(Slots)
        /\ phase = "multi_mean" => /\ bufs[mean_buf(cfg)] = << >>
                                   /\ bufs[variance_buf(cfg)] = << >>
        /\ (phase = "multi_var" /\ calculate_stats(cfg)) =>
                /\ DOMAIN bufs[mean_buf(cfg)] = AllEntries
                /\ bufs[variance_buf(cfg)] = << >>
        /\ phase = "multi_norm" => Written = {}
    /\ (algo = "single" /\ calculate_stats(cfg)) =>
        /\ \A t \in done :
                wlog[t] = {<<mean_buf(cfg), i>> : i \in UnitRange(t)}
                          \cup {<<variance_buf(cfg), i>> : i \in UnitRange(t)}
        /\ done = Threads =>
                Written = {<<mean_buf(cfg), i>> : i \in AllEntries}
                          \cup {<<variance_buf(cfg), i>> : i \in AllEntries}

C16_Witness ==
    /\ phase = "multi_var" /\ done = Threads
    /\ cfg.nthr = 3 /\ cfg.G = 3 /\ cfg.N = 2 /\ cfg.SP = 2 /\ cfg.CPG = 3
    /\ Cardinality(Written) = 18
    /\ \A t \in Threads : Cardinality(wlog[t]) = 6

\* the slots n * nthr_per_g * G + k * G + g of entry (n, g), one per chunk k
EntrySlots(n, g) ==
    {n * Min(cfg.nthr, cfg.G) * cfg.G + k * cfg.G + g :
        k \in 0 .. (Min(cfg.nthr, cfg.G) - 1)}

\* the offset of the first element of slot i's sample, group and chunk
SlotOffset(i) ==
    (SlotN(i) * cfg.SP + SlotSp0(i)) * cfg.C_padded + SlotG(i) * cfg.CPG

\* a scratch in which the j-th slot of sample m holds 2^j and the slots of the
\* other samples hold 0, so that a sum tells which slots it adds
ProbeBufs(m) ==
    [b \in BufNames |->
        IF b = "key_gnorm_reduction"
        THEN [i \in Slots |->
                IF SlotN(i) = m
                THEN QInt(Pow(2, i % (cfg.G * Min(cfg.nthr, cfg.G))))
                ELSE QZero]
        ELSE << >>]

RECURSIVE SumPow(_, _)
SumPow(S, m) ==
    IF S = {} THEN 0
    ELSE LET x == CHOOSE y \in S : TRUE
         IN  (IF SlotN(x) = m
              THEN Pow(2, x % (cfg.G * Min(cfg.nthr, cfg.G))) ELSE 0)
                + SumPow(S \ {x}, m)

(* C17: under Strategy B the slot layout of the writers and of reduce agree: *)
(* work item i handles sample i / (G * nthr_per_g), group i mod G and chunk  *)
(* (i mod (G * nthr_per_g)) / G and writes slot i; reduce computes entry     *)
(* (n, g) as the sum of exactly the slots n * nthr_per_g * G + k * G + g,    *)
(* which are the slots written for sample n and group g, one per chunk,      *)
(* divided by C_PER_G * SP; the partial-variance call of item i reads the    *)
(* mean of the entry its slot is reduced into.                               *)
C17_SlotLayoutAgrees ==
    (algo = "multi" /\ calculate_stats(cfg)) =>
        /\ \A t \in Threads : \A j \in DOMAIN trace[t] :
            LET k == trace[t][j]
                i == IF k.kernel = "mean" THEN k.mean[2] ELSE k.var[2]
            IN  k.kernel \in {"mean", "var"} =>
                /\ i \in Slots
                /\ k.src = SlotOffset(i) /\ k.block_size = SlotLen(i)
                /\ k.kernel = "mean" => k.mean = <<"key_gnorm_reduction", i>>
                /\ k.kernel = "var" =>
                    /\ k.var = <<"key_gnorm_reduction", i>>
                    /\ k.mean = <<mean_buf(cfg), SlotN(i) * cfg.G + SlotG(i)>>
                    /\ i \in EntrySlots(SlotN(i), SlotG(i))
        /\ \A u \in Units :
            /\ EntrySlots(u[1], u[2])
                    = {i \in Slots : SlotN(i) = u[1] /\ SlotG(i) = u[2]}
            /\ {SlotChunk(i) : i \in EntrySlots(u[1], u[2])}
                    = 0 .. (nthr_per_g(cfg, pd) - 1)
        /\ (phase = "multi_var" /\ done = {}) =>
            /\ \A m \in 0 .. (cfg.N - 1) :
                LET r == reduce(cfg, pd, ProbeBufs(m), mean_buf(cfg),
                                "key_gnorm_reduction")
                IN  /\ \A u \in Units :
                        r.bufs[mean_buf(cfg)][u[1] * cfg.G + u[2]]
                            = <<SumPow(EntrySlots(u[1], u[2]), m), 1>>
                    /\ r.rl = {<<"key_gnorm_reduction", i>> : i \in Slots}
                    /\ r.wl = {<<mean_buf(cfg), e>> : e \in AllEntries}
            /\ \A u \in Units :
                StatAt(mean_buf(cfg), u[1] * cfg.G + u[2])
                    = FDivD(cfg, AscFold(u[1], u[2], Min(cfg.nthr, cfg.G)))
        /\ (phase = "multi_norm" /\ done = {}) =>
            \A u \in Units :
                StatAt(variance_buf(cfg), u[1] * cfg.G + u[2])
                    = FDivD(cfg, AscFold(u[1], u[2], Min(cfg.nthr, cfg.G)))

C17_Witness ==
    /\ phase = "multi_norm" /\ done = {} /\ calculate_stats(cfg)
    /\ cfg.nthr = 2 /\ cfg.G = 3 /\ cfg.N = 2 /\ cfg.SP = 3 /\ cfg.CPG = 3
    /\ EntrySlots(1, 2) = {8, 11}
    /\ trace[1][6].kernel = "mean" /\ trace[1][6].mean[2] = 11
    /\ trace[1][6].src = 42 /\ trace[1][6].block_size = 2
    /\ StatAt(variance_buf(cfg), 5)[1] > 0

\* the mean-kernel calls made so far for chunk k of unit u, by any thread
ChunkCalls(u, k) ==
    {<<t, j>> \in UNION {{t} \X DOMAIN trace[t] : t \in Threads} :
        /\ trace[t][j].kernel = "mean"
        /\ trace[t][j].mean[2]
                = u[1] * Min(cfg.nthr, cfg.G) * cfg.G + k * cfg.G + u[2]}
ChunkCall(u, k) ==
    LET tj == CHOOSE x \in ChunkCalls(u, k) : TRUE IN trace[tj[1]][tj[2]]

\* the spatial positions the call for chunk k of unit u goes over
ChunkStart(u, k) ==
    (ChunkCall(u, k).src - u[2] * cfg.CPG) \div cfg.C_padded - u[1] * cfg.SP
ChunkEnd(u, k) == ChunkStart(u, k) + ChunkCall(u, k).block_size
ChunkPositions(u, k) == ChunkStart(u, k) .. (ChunkEnd(u, k) - 1)

(* C18: under Strategy B the spatial extent of every (n, g) is cut into      *)
(* min(thread count, G) chunks that are contiguous, pairwise disjoint and    *)
(* cover [0, SP): every chunk but the last has floor(SP / chunks) positions, *)
(* the last has the rest; each slot holds the partial sum of its chunk, so   *)
(* the slots of (n, g) add up to the sum over the whole extent; when SP is   *)
(* smaller than the number of chunks every chunk but the last is empty and   *)
(* its kernel call, with block size 0, stores 0.                             *)
C18_ChunksCoverSP ==
    (algo = "multi" /\ calculate_stats(cfg)
        /\ phase = "multi_mean" /\ done = Threads) =>
        LET chunks == Min(cfg.nthr, cfg.G)
        IN  /\ nthr_per_g(cfg, pd) = chunks
            /\ \A u \in Units :
                /\ \A k \in 0 .. (chunks - 1) :
                    /\ Cardinality(ChunkCalls(u, k)) = 1
                    /\ ChunkCall(u, k).block_size
                            = IF k < chunks - 1 THEN cfg.SP \div chunks
                              ELSE cfg.SP - k * (cfg.SP \div chunks)
                    /\ ChunkStart(u, k) = IF k = 0 THEN 0 ELSE ChunkEnd(u, k - 1)
                    /\ (ChunkCall(u, k).src - u[2] * cfg.CPG) % cfg.C_padded = 0
                    /\ QEq(cfg, StatAt("key_gnorm_reduction",
                                       ChunkCall(u, k).mean[2]),
                           <<ChunkSum(cfg, u[1], u[2], ChunkStart(u, k),
                                      ChunkCall(u, k).block_size), 0>>)
                    /\ (cfg.SP < chunks /\ k < chunks - 1) =>
                        /\ ChunkCall(u, k).block_size = 0
                        /\ StatAt("key_gnorm_reduction",
                                  ChunkCall(u, k).mean[2]) = QZero
                /\ ChunkEnd(u, chunks - 1) = cfg.SP
                /\ \A k1, k2 \in 0 .. (chunks - 1) :
                    k1 # k2 => ChunkPositions(u, k1) \cap ChunkPositions(u, k2) = {}
                /\ UNION {ChunkPositions(u, k) : k \in 0 .. (chunks - 1)}
                        = 0 .. (cfg.SP - 1)
                /\ QEq(cfg, AscFold(u[1], u[2], chunks),
                       <<RefSum(cfg, u[1], u[2]), 0>>)

C18_Witness ==
    /\ algo = "multi" /\ calculate_stats(cfg)
    /\ phase = "multi_mean" /\ done = Threads
    /\ cfg.nthr = 3 /\ cfg.G = 3 /\ cfg.SP = 2 /\ cfg.N = 2 /\ cfg.CPG = 3
    /\ ChunkPositions(<<1, 2>>, 0) = {} /\ ChunkPositions(<<1, 2>>, 1) = {}
    /\ ChunkPositions(<<1, 2>>, 2) = {0, 1}
    /\ StatAt("key_gnorm_reduction", 11) = QZero
    /\ StatAt("key_gnorm_reduction", 17)[1] = RefSum(cfg, 1, 2)
    /\ RefSum(cfg, 1, 2) > 0

\* the indices of stat_reduction read or written in the current region, held
\* by the buffer, or passed to a kernel as its result or mean pointer
ScratchTouched ==
    {x[2] : x \in {y \in UNION {wlog[t] \cup rlog[t] : t \in DOMAIN wlog} :
                        y[1] = "key_gnorm_reduction"}}
        \cup DOMAIN bufs["key_gnorm_reduction"]
        \cup UNION {{trace[t][j].mean[2] : j \in {k \in DOMAIN trace[t] :
                        trace[t][k].mean[1] = "key_gnorm_reduction"}}
                    \cup {trace[t][j].var[2] : j \in {k \in DOMAIN trace[t] :
                        trace[t][k].var[1] = "key_gnorm_reduction"}} :
                    t \in Threads}

(* C19: every index of stat_reduction that execute_forward reads or writes   *)
(* is below the size init booked, N * C * nthr; the scratch is read or       *)
(* written only under Strategy B with computed statistics: under Strategy A  *)
(* and with supplied statistics no slot is touched.                          *)
C19_ScratchWithinBooking ==
    /\ ~cfg.stats_is_src =>
        pd.booked["key_gnorm_reduction"] = cfg.N * (cfg.G * cfg.CPG) * cfg.nthr
    /\ {x \in oob : x[1] = "key_gnorm_reduction"} = {}
    /\ \A i \in ScratchTouched :
        /\ algo = "multi" /\ calculate_stats(cfg)
        /\ 0 <= i /\ i < cfg.N * (cfg.G * cfg.CPG) * cfg.nthr
        /\ i < BufSize(cfg, pd, "key_gnorm_reduction")
    /\ (phase \in {"multi_mean", "multi_var"} /\ done = Threads
            /\ calculate_stats(cfg)) => ScratchTouched = Slots
    /\ (phase = "multi_mean" /\ done = Threads /\ calculate_stats(cfg)) =>
        LET r == reduce(cfg, pd, bufs, mean_buf(cfg), "key_gnorm_reduction")
        IN  /\ r.oob = {}
            /\ \A x \in r.rl \cup r.wl :
                x[1] = "key_gnorm_reduction" =>
                    x[2] < BufSize(cfg, pd, "key_gnorm_reduction")
    /\ (Finished /\ (algo = "single" \/ cfg.stats_is_src)) =>
        /\ bufs["key_gnorm_reduction"] = InitBufs(cfg)["key_gnorm_reduction"]
        /\ calls.reduce = 0

C19_Witness ==
    /\ phase = "multi_var" /\ done = Threads /\ calculate_stats(cfg)
    /\ cfg.nthr = 3 /\ cfg.G = 3 /\ cfg.N = 2 /\ cfg.CPG = 3
    /\ 17 \in ScratchTouched
    /\ <<"key_gnorm_reduction", 17>> \in wlog[2]
    /\ pd.booked["key_gnorm_reduction"] = 54

\* the accumulator registers the channel blocks of generate() add into: the
\* full blocks 0 .. 3, the remainder block 0 .. unroll_c_tail_ - 1, the tail 0
AddedInto(c) ==
    (IF nc_blocks_(c) # 0 THEN 0 .. (unroll_c_ - 1) ELSE {})
        \cup (IF unroll_c_tail_(c) # 0 THEN 0 .. (unroll_c_tail_(c) - 1) ELSE {})
        \cup (IF axis_simd_tail_(c) # 0 THEN {0} ELSE {})

\* sum of the source elements at off, off + C_padded, ... (len positions)
RECURSIVE SumPos(_, _)
SumPos(off, len) ==
    IF len <= 0 THEN 0
    ELSE SrcAt(cfg, off) + SumPos(off + cfg.C_padded, len - 1)

\* sum of the channels ch = l (mod W) of the group over len positions from src
RECURSIVE LaneSum(_, _, _, _)
LaneSum(src, len, l, ch) ==
    IF ch >= cfg.CPG THEN 0
    ELSE SumPos(src + ch, len) + LaneSum(src, len, l, ch + cfg.W)

(* C20: in the statistics kernel, for every C_PER_G > 1 and vector width 8   *)
(* or 16, C_PER_G = nc_blocks * 4 * W + unroll_c_tail * W + tail with        *)
(* 0 <= unroll_c_tail <= 3 and 0 <= tail < W, and every channel of the group *)
(* is accumulated exactly once per spatial position; the accumulators the    *)
(* blocks add into are the ones zeroed before the first block and reduced    *)
(* afterwards, max_unroll of them (4 with a full block, else the remainder   *)
(* unroll, else 1), and no other accumulator is read.                        *)
C20_ChannelDecomposition ==
    /\ (algo = "none" /\ cfg.N = 1 /\ cfg.G = 1 /\ cfg.SP = 1) =>
        \A x \in 2 .. MaxElems : \A w \in SimdSet :
            LET c == [cfg EXCEPT !.CPG = x, !.W = w]
            IN  /\ x = nc_blocks_(c) * 4 * w + unroll_c_tail_(c) * w
                            + axis_simd_tail_(c)
                /\ 0 <= unroll_c_tail_(c) /\ unroll_c_tail_(c) <= 3
                /\ 0 <= axis_simd_tail_(c) /\ axis_simd_tail_(c) < w
                /\ stat_tail_(c) = axis_simd_tail_(c)
                /\ c_block_tail_(c) = unroll_c_tail_(c) * w
                /\ max_unroll(c) = IF nc_blocks_(c) >= 1 THEN 4
                                   ELSE IF unroll_c_tail_(c) >= 1
                                        THEN unroll_c_tail_(c) ELSE 1
                /\ AddedInto(c) = 0 .. (max_unroll(c) - 1)
    /\ (Finished /\ calculate_stats(cfg)) =>
        \A j \in DOMAIN trace[0] :
            LET k == trace[0][j]
                acc == stat_blocks(cfg, k.kernel = "var",
                                   IF k.kernel = "var"
                                   THEN StatAt(k.mean[1], k.mean[2]) ELSE QZero,
                                   k.src, k.block_size)
            IN  k.kernel \in {"mean", "var"} =>
                /\ \A ur \in URange \ AddedInto(cfg) : acc[ur] = GarbageVec(cfg)
                /\ k.kernel = "mean" =>
                    \A l \in Lanes(cfg) :
                        reduce_unrolled(cfg, acc)[l]
                            = QInt(LaneSum(k.src, k.block_size, l, l))

C20_Witness ==
    /\ Finished /\ calculate_stats(cfg) /\ algo = "multi"
    /\ cfg.CPG = 31 /\ cfg.W = 8 /\ cfg.SP = 2 /\ cfg.G = 2 /\ cfg.nthr = 1
    /\ nc_blocks_(cfg) = 0 /\ unroll_c_tail_(cfg) = 3 /\ axis_simd_tail_(cfg) = 7
    /\ max_unroll(cfg) = 3 /\ AddedInto(cfg) = {0, 1, 2}
    /\ trace[0][1].kernel = "mean" /\ trace[0][1].block_size = 2
    /\ LaneSum(0, 2, 7, 7) > 0

\* sum of the lanes l .. W - 1 of a register of undivided values
RECURSIVE LaneTotal(_, _)
LaneTotal(v, l) ==
    IF l >= cfg.W THEN 0 ELSE v[l][1] + LaneTotal(v, l + 1)

(* C21: reduce_horizontal is a full horizontal sum: for the 8-lane and the   *)
(* 16-lane register, after its shuffle-and-add steps lane 0, the lane that   *)
(* is stored as the statistic, holds the sum of all lanes of the input       *)
(* register, each lane counted exactly once.                                 *)
C21_FullHorizontalSum ==
    /\ (phase \in {"reduce_horizontal", "stored"}
            /\ Len(code) = Len(reduce_horizontal_code(cfg))) =>
        /\ vmms.vstat[0] = QInt(LaneTotal(vmms.vstat_in, 0))
        /\ vmms.vstat = reduce_horizontal(cfg, vmms.vstat_in)
        /\ Len(code) = IF cfg.W = 16 THEN 8 ELSE 6
    /\ phase = "stored" =>
        /\ DOMAIN bufs[mean_buf(cfg)] = {0}
        /\ QEq(cfg, bufs[mean_buf(cfg)][0],
               <<LaneTotal(vmms.vstat_in, 0), IF kernel_divides(cfg) THEN 1 ELSE 0>>)
        /\ bufs[mean_buf(cfg)][0][2] = IF cfg.CPG >= 32 THEN 1 ELSE 0

C21_Witness ==
    /\ phase = "stored" /\ cfg.W = 16 /\ cfg.CPG = 3
    /\ vmms.vstat_in = [l \in Lanes(cfg) |-> QInt(Pow(2, l))]
    /\ bufs[mean_buf(cfg)][0] = QInt(65535)
    /\ vmms.vtmp # GarbageVec(cfg)

\* the elements a kernel call goes over from its source pointer: block_size
\* positions kernel_stride apart, C_PER_G channels each
Touched(k) ==
    {k.src + sp * kernel_stride(cfg) + ch :
        sp \in 0 .. (k.block_size - 1), ch \in 0 .. (cfg.CPG - 1)}

\* the elements of the sample, group and spatial positions a call was given:
\* block_size positions of the tensor from the one its source pointer is in
Assigned(k) ==
    {((k.src \div cfg.C_padded) + sp) * cfg.C_padded + (k.src % cfg.C_padded) + ch :
        sp \in 0 .. (k.block_size - 1), ch \in 0 .. (cfg.CPG - 1)}

\* every kernel call made so far
AllCalls == UNION {{trace[t][j] : j \in DOMAIN trace[t]} : t \in Threads}

(* C22: the statistics and normalize kernels step between consecutive        *)
(* spatial positions by the padded channel count, the stride the scheduler   *)
(* uses for its offsets, so that the elements a kernel touches over its      *)
(* block size are exactly the elements of the (sample, group, spatial chunk) *)
(* the scheduler assigned to it, in the source and in the destination.       *)
C22_KernelStrideIsPadded ==
    /\ kernel_stride(cfg) = cfg.C_padded
    /\ \A k \in AllCalls : Touched(k) = Assigned(k)
    /\ Finished => StoredOffsets = ValidOffsets

(* C22, what the kernels do: they step by C, the channel count without       *)
(* padding; a call touches exactly the elements assigned to it when the      *)
(* padded channel count equals C or the block has at most one position, and  *)
(* other elements otherwise.                                                 *)
C22_KernelStrideIsC ==
    /\ kernel_stride(cfg) = C_(cfg)
    /\ \A k \in AllCalls :
        (Touched(k) = Assigned(k)) <=> (cfg.C_padded = C_(cfg) \/ k.block_size <= 1)
    /\ Finished =>
        ((StoredOffsets = ValidOffsets)
            <=> (cfg.C_padded = C_(cfg) \/ \A k \in AllCalls : k.block_size <= 1))

C22_Witness ==
    /\ Finished /\ cfg.C_padded = C_(cfg) + 1 /\ cfg.SP = 2 /\ cfg.N = 1
    /\ cfg.G = 2 /\ cfg.CPG = 3 /\ cfg.nthr = 1
    /\ trace[0][1].kernel = "mean" /\ trace[0][1].block_size = 2
    /\ Touched(trace[0][1]) = {0, 1, 2, 6, 7, 8}
    /\ Assigned(trace[0][1]) = {0, 1, 2, 7, 8, 9}
    /\ StoredOffsets # ValidOffsets

\* sample and group of the element at a source offset
SampleOf(off) == (off \div cfg.C_padded) \div cfg.SP
GroupOf(off) == (off % cfg.C_padded) \div cfg.CPG

(* C23: in both strategies every normalize call for a source element of      *)
(* sample n, group g and in-group channel c reads the mean and the variance  *)
(* at entry n * G + g of the statistics buffers and, when configured, the    *)
(* scale and the shift at channel g * C_PER_G + c; it reads no statistics of *)
(* another sample or group and no affine parameter of another channel; the   *)
(* scale (shift) pointer is null exactly when no scale (shift) tensor was    *)
(* supplied.                                                                 *)
C23_NormalizePointers ==
    Finished =>
        \A t \in Threads :
            /\ \A j \in CallsOf(trace[t], "norm") :
                LET k == trace[t][j]
                    e == SampleOf(k.src) * cfg.G + GroupOf(k.src)
                IN  /\ k.mean = <<mean_buf(cfg), e>>
                    /\ k.var = <<variance_buf(cfg), e>>
                    /\ (k.scale = Null) <=> (scale_arg(cfg) = Null)
                    /\ (k.shift = Null) <=> (shift_arg(cfg) = Null)
                    /\ k.scale # Null => k.scale = GroupOf(k.src) * cfg.CPG
                    /\ k.shift # Null => k.shift = GroupOf(k.src) * cfg.CPG
                    /\ k.src % cfg.CPG = 0 /\ k.dst = k.src
            /\ rlog[t] = UNION {{trace[t][j].mean, trace[t][j].var} :
                                    j \in CallsOf(trace[t], "norm")}
            /\ \A r \in DOMAIN dst[t] : \A c \in compute_dst(cfg) :
                LET row == dst[t][r]
                    v == dst_value(cfg, row, c)
                    n == SampleOf(row.src + c)
                    g == GroupOf(row.src + c)
                IN  /\ c = (row.src + c) % cfg.CPG
                    /\ v[2] = StatAt(mean_buf(cfg), n * cfg.G + g)
                    /\ v[3] = StatAt(variance_buf(cfg), n * cfg.G + g)
                    /\ v[4] = IF cfg.use_scale THEN g * cfg.CPG + c ELSE Null
                    /\ v[5] = IF cfg.use_shift THEN g * cfg.CPG + c ELSE Null

C23_Witness ==
    /\ Finished /\ algo = "multi" /\ ~cfg.use_scale /\ cfg.use_shift
    /\ cfg.nthr = 2 /\ cfg.N = 2 /\ cfg.G = 3 /\ cfg.SP = 1 /\ cfg.CPG = 3
    /\ trace[1][6].kernel = "norm" /\ trace[1][6].src = 15
    /\ trace[1][6].mean = <<"CTX_IN_MEAN", 5>>
    /\ trace[1][6].scale = Null /\ trace[1][6].shift = 6
    /\ dst_value(cfg, dst[1][3], 2)[5] = 8

====
